---- MODULE Spec2Model ----
(***************************************************************************)
(* Deal-ingestion and change-detection pipeline of the Flashfood tracker:  *)
(* FlashfoodScheduler.fetch_and_update_deals / _process_store_items        *)
(* (backend/app/services/scheduler.py), NotificationService                *)
(* (backend/app/services/notification.py) and the e-mail transport         *)
(* (backend/app/services/email.py).                                        *)
(*                                                                         *)
(* Prices are integers (cents).  The wall clock is the counter `now`; it   *)
(* advances when a cycle starts.  The code between two awaits that suspend *)
(* runs without interleaving on the single asyncio event loop: a cycle     *)
(* that is not Suspended excludes the steps of the other cycle.            *)
(***************************************************************************)
EXTENDS Integers, Sequences, FiniteSets, TLC

VARIABLES
    store_tbl,      \* table "store": sequence of rows, row i has id i
    product_tbl,    \* table "product": sequence of rows, row i has id i
    price_history,  \* table "price_history": sequence of rows in insertion order
    cyc,            \* per running cycle: the locals of fetch_and_update_deals
    now,            \* wall clock
    started,        \* number of cycles started so far
    users,          \* tables "user" joined with "user_preference" (read-only)
    tracked_cities, \* FlashfoodScheduler.tracked_cities: the keys, in order
    outbox,         \* calls made to EmailService.send_new_deal_alert
    broadcasts,     \* messages handed to manager.broadcast
    scheduler,      \* FlashfoodScheduler.is_running and its AsyncIOScheduler
    manager,        \* the ConnectionManager and the broadcast it is running
    flashfood       \* the FlashfoodService: its cache and its last stores call

vars == <<store_tbl, product_tbl, price_history, cyc, now, started, users,
          tracked_cities, outbox, broadcasts, scheduler, manager, flashfood>>

\* what no step of a cycle writes
env == <<users, tracked_cities, scheduler, manager, flashfood>>

----------------------------------------------------------------------------
(* Bounds of the model *)

MaxCycles == 2
MaxCalls == 3
MaxItems == 1
MaxSnapshot == 2
MaxDeals == 11
MaxFilterDeals == 2
MaxClients == 3
MaxUserId == 2
MaxCents == 8
DayLength == 3

(* An optional integer: None, or Some(n) *)
None == <<>>
Some(n) == <<n>>

\* truth value of an optional integer: None and 0 are false
Truthy(x) == x # None /\ x[1] # 0

Cycles == {"sched", "manual"}

ItemIds == {"a", "b"}
Prices == {199, 299}
Quantities == {0, 1}
OriginalPrices == {399}
Categories == {"Bakery"}

(* Raw items of the upstream feed: the fields parse_item_data reads *)
RawItems ==
    [id : ItemIds, price : Prices, quantityAvailable : Quantities,
     originalPrice : OriginalPrices, category : Categories]

RECURSIVE SeqsUpTo(_, _)
SeqsUpTo(S, n) ==
    IF n = 0 THEN {<<>>}
    ELSE LET shorter == SeqsUpTo(S, n - 1)
         IN  shorter \cup {Append(q, x) : q \in {r \in shorter : Len(r) = n - 1}, x \in S}

(* The items the running system is fed: those in stock *)
FeedItems == {r \in RawItems : r.quantityAvailable > 0}

(* The item lists a store of the feed may carry *)
Snapshots == SeqsUpTo(FeedItems, MaxItems)

(* The stores the upstream may return for a search around a city *)
StoresNear(city) == IF city = "calgary" THEN {"s1"} ELSE {"s2"}

(* response.get("data", []): the stores of one response, each with its items *)
Responses(city) ==
    {<<>>} \cup {<<[id |-> s, items |-> its]>> : s \in StoresNear(city), its \in Snapshots}

----------------------------------------------------------------------------
(* FlashfoodService.parse_item_data: the normalized product dictionary *)

\* int(x) of Python truncates toward zero
TruncDiv(a, b) == IF a >= 0 THEN a \div b ELSE -((-a) \div b)

DiscountPercent(original_price, discount_price) ==
    IF original_price > 0
    THEN Some(TruncDiv((original_price - discount_price) * 100, original_price))
    ELSE None

parse_item_data(raw_item) ==
    [external_id        |-> raw_item.id,
     category           |-> raw_item.category,
     original_price     |-> raw_item.originalPrice,
     discount_price     |-> raw_item.price,
     discount_percent   |-> DiscountPercent(raw_item.originalPrice, raw_item.price),
     quantity_available |-> raw_item.quantityAvailable]

----------------------------------------------------------------------------
(* FlashfoodScheduler._process_store_items, on the tables                  *)

\* db.query(Product).filter(store_id ==, external_id ==).first(): the id of
\* the first matching row, 0 when there is none
\* (variant: the store filter inverted)
MatchingProductsOfOtherStores(products, store_id, external_id) ==
    {i \in 1..Len(products) :
        /\ products[i].store_id # store_id
        /\ products[i].external_id = external_id}

MatchingProducts(products, store_id, external_id) ==
    {i \in 1..Len(products) :
        /\ products[i].store_id = store_id
        /\ products[i].external_id = external_id}

FindProduct(products, store_id, external_id) ==
    LET m == MatchingProducts(products, store_id, external_id)
    IN  IF m = {} THEN 0 ELSE CHOOSE i \in m : \A j \in m : i <= j

NewProductRow(products, store_id, item_info, t) ==
    [id                 |-> Len(products) + 1,
     store_id           |-> store_id,
     external_id        |-> item_info.external_id,
     category           |-> item_info.category,
     original_price     |-> item_info.original_price,
     discount_price     |-> item_info.discount_price,
     discount_percent   |-> item_info.discount_percent,
     quantity_available |-> item_info.quantity_available,
     last_seen          |-> t]

\* (variant: the point records the original price)
HistoryPointOfOriginalPrice(product_id, item_info, t) ==
    [product_id         |-> product_id,
     price              |-> item_info.original_price,
     quantity_available |-> item_info.quantity_available]

\* PriceHistory(product_id, price, quantity_available); recorded_at is the
\* database default and is not kept
HistoryPoint(product_id, item_info, t) ==
    [product_id         |-> product_id,
     price              |-> item_info.discount_price,
     quantity_available |-> item_info.quantity_available]

\* (variant: the comparison reads the original price)
price_changed_on_original(db_product, item_info) ==
    db_product.original_price # item_info.original_price

price_changed(db_product, item_info) ==
    db_product.discount_price # item_info.discount_price

quantity_changed(db_product, item_info) ==
    db_product.quantity_available # item_info.quantity_available

\* (variant: the quantity of the row is left as it was)
UpdatedProductRowKeepingQuantity(db_product, item_info, t) ==
    [db_product EXCEPT
        !.external_id        = item_info.external_id,
        !.category           = item_info.category,
        !.original_price     = item_info.original_price,
        !.discount_price     = item_info.discount_price,
        !.discount_percent   = item_info.discount_percent,
        !.last_seen          = t]

\* (variant: last_seen is left as it was)
UpdatedProductRowKeepingLastSeen(db_product, item_info, t) ==
    [db_product EXCEPT
        !.external_id        = item_info.external_id,
        !.category           = item_info.category,
        !.original_price     = item_info.original_price,
        !.discount_price     = item_info.discount_price,
        !.discount_percent   = item_info.discount_percent,
        !.quantity_available = item_info.quantity_available]

\* (variant: the discount price of the row is left as it was)
UpdatedProductRowKeepingPrice(db_product, item_info, t) ==
    [db_product EXCEPT
        !.external_id        = item_info.external_id,
        !.category           = item_info.category,
        !.original_price     = item_info.original_price,
        !.discount_percent   = item_info.discount_percent,
        !.quantity_available = item_info.quantity_available,
        !.last_seen          = t]

\* the setattr loop over item_info (every key but store_id) and last_seen
UpdatedProductRow(db_product, item_info, t) ==
    [db_product EXCEPT
        !.external_id        = item_info.external_id,
        !.category           = item_info.category,
        !.original_price     = item_info.original_price,
        !.discount_price     = item_info.discount_price,
        !.discount_percent   = item_info.discount_percent,
        !.quantity_available = item_info.quantity_available,
        !.last_seen          = t]

\* one iteration of the loop over items: the tables afterwards, and the id of
\* the product appended to new_products (0 when the product existed)
ProcessItemOp(products, history, store_id, raw_item, t) ==
    LET item_info == parse_item_data(raw_item)
        found     == FindProduct(products, store_id, item_info.external_id)
    IN  IF found = 0
        THEN LET row == NewProductRow(products, store_id, item_info, t)
             IN  [products |-> Append(products, row),
                  history  |-> Append(history, HistoryPoint(row.id, item_info, t)),
                  new_id   |-> row.id]
        ELSE LET db_product == products[found]
             IN  [products |-> [products EXCEPT
                                  ![found] = UpdatedProductRow(db_product, item_info, t)],
                  history  |-> IF \/ price_changed(db_product, item_info)
                                  \/ quantity_changed(db_product, item_info)
                               THEN Append(history,
                                           HistoryPoint(db_product.id, item_info, t))
                               ELSE history,
                  new_id   |-> 0]

\* the stale_products query
IsStale(product, store_id, current_external_ids) ==
    /\ product.store_id = store_id
    /\ product.external_id \notin current_external_ids
    /\ product.quantity_available > 0

\* (variant: a stale product keeps its quantity)
MarkStaleOpKeepingQuantity(products, store_id, current_external_ids, t) ==
    [i \in 1..Len(products) |->
        IF IsStale(products[i], store_id, current_external_ids)
        THEN [products[i] EXCEPT !.last_seen = t]
        ELSE products[i]]

\* (variant: every product in stock of the store is marked, seen or not)
MarkStaleOpOfAllInStock(products, store_id, current_external_ids, t) ==
    [i \in 1..Len(products) |->
        IF products[i].store_id = store_id /\ products[i].quantity_available > 0
        THEN [products[i] EXCEPT !.quantity_available = 0, !.last_seen = t]
        ELSE products[i]]

\* (variant: the stale query without the filter on the store)
MarkStaleOpOfEveryStore(products, store_id, current_external_ids, t) ==
    [i \in 1..Len(products) |->
        IF /\ products[i].external_id \notin current_external_ids
           /\ products[i].quantity_available > 0
        THEN [products[i] EXCEPT !.quantity_available = 0, !.last_seen = t]
        ELSE products[i]]

MarkStaleOp(products, store_id, current_external_ids, t) ==
    [i \in 1..Len(products) |->
        IF IsStale(products[i], store_id, current_external_ids)
        THEN [products[i] EXCEPT !.quantity_available = 0, !.last_seen = t]
        ELSE products[i]]

\* the whole of _process_store_items: the loop over items, then the stale
\* products; new_products is the list it returns
RECURSIVE ProcessItemsFrom(_, _, _, _, _, _, _, _)
ProcessItemsFrom(products, history, store_id, items, k, ids, new_products, t) ==
    IF k > Len(items)
    THEN [products     |-> MarkStaleOp(products, store_id, ids, t),
          history      |-> history,
          new_products |-> new_products]
    ELSE LET res == ProcessItemOp(products, history, store_id, items[k], t)
         IN  ProcessItemsFrom(res.products, res.history, store_id, items, k + 1,
                              ids \cup {parse_item_data(items[k]).external_id},
                              IF res.new_id # 0 THEN Append(new_products, res.new_id)
                                                ELSE new_products,
                              t)

process_store_items(products, history, store_id, items, t) ==
    ProcessItemsFrom(products, history, store_id, items, 1, {}, <<>>, t)

\* what _process_store_items reports to its caller: the products it created
DiffEntries(new_products) ==
    {[kind |-> "new", product |-> new_products[k]] : k \in 1..Len(new_products)}

----------------------------------------------------------------------------
(* Store upsert of fetch_and_update_deals *)

\* FlashfoodService.parse_store_data, with store_info["city"] = city_key
parse_store_data(raw_store, city_key) ==
    [external_id |-> raw_store.id, city |-> city_key]

\* db.query(Store).filter(Store.external_id == ...).first()
FindStore(stores, external_id) ==
    LET m == {i \in 1..Len(stores) : stores[i].external_id = external_id}
    IN  IF m = {} THEN 0 ELSE CHOOSE i \in m : \A j \in m : i <= j

UpsertStoreOp(stores, store_info) ==
    LET found == FindStore(stores, store_info.external_id)
    IN  IF found = 0
        THEN [stores |-> Append(stores, [id          |-> Len(stores) + 1,
                                         external_id |-> store_info.external_id,
                                         city        |-> store_info.city]),
              id     |-> Len(stores) + 1]
        ELSE [stores |-> [stores EXCEPT ![found] =
                            [@ EXCEPT !.external_id = store_info.external_id,
                                      !.city        = store_info.city]],
              id     |-> found]

\* The same on the whole row.  The stores of the upstream as the feed gives
\* them: id, name, address.fullAddress and location
StoreNames == {"No Frills", "Superstore"}
StoreAddresses == {"1 Main St", "2 Main St"}
StoreLocations == {<<51, -114>>}

RawStores ==
    [id : {"s1", "s2"}, name : StoreNames, fullAddress : StoreAddresses,
     location : StoreLocations]

\* parse_store_data with every key it returns, and store_info["city"]
parse_store_row(raw_store, city_key) ==
    [external_id |-> raw_store.id,
     name        |-> raw_store.name,
     address     |-> raw_store.fullAddress,
     latitude    |-> raw_store.location[1],
     longitude   |-> raw_store.location[2],
     city        |-> city_key]

\* Store(**store_info), or setattr(db_store, key, value) for every key of
\* store_info
UpsertStoreRow(stores, store_info) ==
    LET found == FindStore(stores, store_info.external_id)
    IN  IF found = 0
        THEN Append(stores, [id |-> Len(stores) + 1] @@ store_info)
        ELSE [stores EXCEPT ![found] =
                [key \in DOMAIN @ |->
                    IF key \in DOMAIN store_info THEN store_info[key] ELSE @[key]]]

----------------------------------------------------------------------------
(* FlashfoodScheduler.start / stop                                         *)
(*                                                                         *)
(* scheduler.jobs is the job store of the AsyncIOScheduler, scheduler.active *)
(* says that it was started and not shut down.  calls, last_call and       *)
(* cancelled record what was done: the number of start() and stop() calls, *)
(* the last of them, and whether a shutdown cancelled a running job.       *)

JobId == "flashfood_polling"

\* after __init__
StoppedScheduler ==
    [is_running |-> FALSE, jobs |-> <<>>, active |-> FALSE,
     calls |-> 0, last_call |-> "none", cancelled |-> FALSE]

\* after start()
RunningScheduler ==
    [is_running |-> TRUE, jobs |-> <<JobId>>, active |-> TRUE,
     calls |-> 0, last_call |-> "start", cancelled |-> FALSE]

\* (variant: the job is added next to the one of the same id)
add_job_again(jobs, id) == Append(jobs, id)

\* add_job(..., id=..., replace_existing=True)
add_job(jobs, id) ==
    IF \E k \in 1..Len(jobs) : jobs[k] = id THEN jobs ELSE Append(jobs, id)

----------------------------------------------------------------------------
(* FlashfoodService.get_stores_near_location and its cache (flashfood.py)  *)
(*                                                                         *)
(* flashfood.redis_client says whether a cache is configured,              *)
(* flashfood.cache is the content of the cache by key (None: no entry),    *)
(* flashfood.last the arguments and the result of the last call, and       *)
(* whether it was answered from the cache.                                 *)

\* search centres: Calgary and Edmonton, in whole degrees
Coordinates == {<<51, -114>>, <<53, -113>>}
Distances == {75000}
Limits == {1, 2}

StoresArgs ==
    {[latitude |-> c[1], longitude |-> c[2], max_distance_meters |-> d,
      limit |-> l, include_items |-> i] :
        c \in Coordinates, d \in Distances, l \in Limits, i \in BOOLEAN}

\* the content of the upstream, fixed: two stores around either centre
UpstreamStores(latitude, longitude) ==
    IF <<latitude, longitude>> = <<51, -114>>
    THEN <<[id |-> "s1", items |-> <<[id |-> "a", price |-> 199, quantityAvailable |-> 1,
                                      originalPrice |-> 399, category |-> "Bakery"]>>],
           [id |-> "s3", items |-> <<>>]>>
    ELSE <<[id |-> "s2", items |-> <<[id |-> "b", price |-> 299, quantityAvailable |-> 1,
                                      originalPrice |-> 399, category |-> "Bakery"]>>],
           [id |-> "s4", items |-> <<>>]>>

\* what the upstream answers to the request built from the arguments
\* (storesWithItemsLimit, includeItems, the centre and maxDistance)
Upstream(args) ==
    LET near == UpstreamStores(args.latitude, args.longitude)
        n    == IF args.limit < Len(near) THEN args.limit ELSE Len(near)
    IN  [data |-> [k \in 1..n |->
                     IF args.include_items THEN near[k]
                     ELSE [near[k] EXCEPT !.items = <<>>]]]

\* f"stores:{latitude}:{longitude}:{max_distance_meters}:{limit}"
cache_key(args) ==
    <<"stores", args.latitude, args.longitude, args.max_distance_meters, args.limit>>

CacheKeys == {cache_key(args) : args \in StoresArgs}

\* json.dumps and json.loads: the text of a value, and the value of a text
json_dumps(data) == <<"json", data>>
json_loads(text) == text[2]

\* after __init__
FlashfoodService(redis_client) ==
    [redis_client |-> redis_client,
     cache        |-> [key \in CacheKeys |-> None],
     last         |-> None]

\* what the steps of the service leave alone
beside == <<store_tbl, product_tbl, price_history, cyc, now, started, users,
            tracked_cities, outbox, broadcasts, scheduler, manager>>

\* one call, the upstream answering: from the cache when it has an entry for
\* the key, else from the upstream, whose answer is put in the cache
get_stores_near_location(args) ==
    LET key    == cache_key(args)
        cached == IF flashfood.redis_client THEN flashfood.cache[key] ELSE None
    IN  /\ flashfood' =
              IF cached # None
              THEN [flashfood EXCEPT
                      !.last = Some([args |-> args, result |-> json_loads(cached),
                                     hit |-> TRUE])]
              ELSE LET data == Upstream(args)
                   IN  [flashfood EXCEPT
                          !.cache = IF flashfood.redis_client
                                    THEN [@ EXCEPT ![key] = json_dumps(data)]
                                    ELSE @,
                          !.last = Some([args |-> args, result |-> data, hit |-> FALSE])]
        /\ UNCHANGED beside

\* What the request can raise inside the try (102-115), with the classes it
\* is an instance of, nearest first: connection and timeout errors of the
\* transport, a response whose content encoding cannot be decoded, the error
\* of raise_for_status, and the error of response.json().
Raisable ==
    {[class |-> "ConnectError",    bases |-> <<"TransportError", "RequestError", "HTTPError", "Exception">>],
     [class |-> "ReadTimeout",     bases |-> <<"TransportError", "RequestError", "HTTPError", "Exception">>],
     [class |-> "DecodingError",   bases |-> <<"RequestError", "HTTPError", "Exception">>],
     [class |-> "HTTPStatusError", bases |-> <<"HTTPError", "Exception">>],
     [class |-> "JSONDecodeError", bases |-> <<"ValueError", "Exception">>]}

isinstance(e, class) ==
    e.class = class \/ \E k \in 1..Len(e.bases) : e.bases[k] = class

\* the three except clauses (117-125), tried in order: each raises
\* FlashfoodAPIError with its own message
FlashfoodAPIError(e) ==
    [type |-> "FlashfoodAPIError",
     message |-> IF isinstance(e, "HTTPStatusError") THEN "API returned status"
                 ELSE IF isinstance(e, "RequestError")
                      THEN "Failed to connect to Flashfood API"
                      ELSE "Unexpected error"]

\* one call in which the request raises e
get_stores_near_location_raises(args, e) ==
    /\ \/ ~flashfood.redis_client
       \/ flashfood.cache[cache_key(args)] = None
    /\ flashfood' = [flashfood EXCEPT
                        !.last = Some([args |-> args, raised |-> e.class,
                                       error |-> FlashfoodAPIError(e), hit |-> FALSE])]
    /\ UNCHANGED beside

\* an entry of the cache reaches the end of its time to live (setex)
Expire(key) ==
    /\ flashfood.cache[key] # None
    /\ flashfood' = [flashfood EXCEPT !.cache = [@ EXCEPT ![key] = None]]
    /\ UNCHANGED beside

\* the values the upstream may put in a price field: a number, a string that
\* float() parses, a string that it does not parse, or null; amounts in cents
RawPrices ==
    [kind : {"number", "numeral"}, cents : 0..MaxCents]
        \cup [kind : {"text", "null"}, cents : {0}]

\* safe_price_convert: 0.0 for None and for what float() rejects
safe_price_convert(price_value) ==
    IF price_value.kind = "null" THEN 0
    ELSE IF price_value.kind = "text" THEN 0
    ELSE price_value.cents

\* parse_item_data on the two price fields of a raw item
normalize_prices(originalPrice, price) ==
    LET original_price == safe_price_convert(originalPrice)
        discount_price == safe_price_convert(price)
    IN  [original_price   |-> original_price,
         discount_price   |-> discount_price,
         discount_percent |-> DiscountPercent(original_price, discount_price)]

\* one call of parse_item_data
ParseItem(originalPrice, price) ==
    /\ flashfood' = [flashfood EXCEPT
                        !.last = Some([originalPrice |-> originalPrice,
                                       price         |-> price,
                                       item_info     |-> normalize_prices(originalPrice, price)])]
    /\ UNCHANGED beside

----------------------------------------------------------------------------
(* ConnectionManager (websocket.py)                                        *)
(*                                                                         *)
(* manager.active_connections is the set of the same name.  The other      *)
(* fields are the broadcast in progress: pc, the connection it is sending  *)
(* to, the iterator of its for loop over the set (used: the size of the    *)
(* set when the iterator was made; visited: the connections it has         *)
(* yielded) and its local set disconnected.  at_start, attempts, left and  *)
(* seen record what happened: the members when the broadcast started, the  *)
(* sends it made, the connections closed by their endpoint, and every      *)
(* connection ever accepted.  user_connections is the dictionary of the    *)
(* same name, a function from the user ids it has as keys to sets of       *)
(* connections; target and detached belong to a send_to_user in progress:  *)
(* the user it sends to, and whether the set it iterates was taken out of  *)
(* the dictionary since.                                                   *)

Clients == 1..MaxClients

\* after __init__, no broadcast running
NoConnections ==
    [active_connections |-> {}, pc |-> "idle", current |-> 0, used |-> 0,
     visited |-> {}, disconnected |-> {}, at_start |-> {}, attempts |-> <<>>,
     left |-> {}, seen |-> {}, user_connections |-> [u \in {} |-> {}],
     target |-> None, detached |-> FALSE]

\* self.active_connections.add(websocket)
connect(connections, websocket) == connections \cup {websocket}

\* self.active_connections.discard(websocket)
disconnect(connections, websocket) == connections \ {websocket}

RECURSIVE DisconnectAll(_, _)
DisconnectAll(connections, disconnected) ==
    IF disconnected = {}
    THEN connections
    ELSE LET w == CHOOSE x \in disconnected : TRUE
         IN  DisconnectAll(disconnect(connections, w), disconnected \ {w})

\* the loop "for connection in disconnected: self.disconnect(connection)",
\* after which broadcast returns
CleanUp(m) ==
    [m EXCEPT !.active_connections = DisconnectAll(@, m.disconnected),
              !.pc = "returned", !.current = 0]

\* The for statement asks the set iterator for the next connection.  The
\* iterator raises RuntimeError when the size of the set is not the size it
\* had when the loop started; the for statement is outside the try.  With the
\* size unchanged it yields a member not yet yielded, in no particular order,
\* and stops when there is none; when members were replaced in between, it
\* may also stop before all have been yielded.
IterNext(m) ==
    IF Cardinality(m.active_connections) # m.used
    THEN {[m EXCEPT !.pc = "raised", !.current = 0]}
    ELSE {[m EXCEPT !.pc = "sending", !.current = w, !.visited = @ \cup {w}] :
             w \in m.active_connections \ m.visited}
         \cup (IF \/ m.active_connections \subseteq m.visited
                   \/ m.active_connections # m.at_start
                THEN {CleanUp(m)} ELSE {})

\* what the steps of the manager leave alone
outside == <<store_tbl, product_tbl, price_history, cyc, now, started, users,
             tracked_cities, outbox, broadcasts, scheduler, flashfood>>

\* The event loop runs another task only while no broadcast is running or
\* the broadcast is suspended in a send.
OthersMayRun == manager.pc \in {"idle", "sending"}

\* websocket_endpoint: manager.connect(websocket) for a new client
EndpointAccepts(w) ==
    /\ OthersMayRun
    /\ w \notin manager.seen
    /\ manager' = [manager EXCEPT
                      !.active_connections = connect(@, w),
                      !.seen = @ \cup {w}]
    /\ UNCHANGED outside

\* websocket_endpoint: "finally: manager.disconnect(websocket)"
EndpointCloses(w) ==
    /\ OthersMayRun
    /\ w \in manager.active_connections
    /\ manager' = [manager EXCEPT
                      !.active_connections = disconnect(@, w),
                      !.left = @ \cup {w}]
    /\ UNCHANGED outside

\* broadcast is called: it returns at once without connections, else it
\* starts its loop and is suspended in the first send
broadcast ==
    /\ manager.pc = "idle"
    /\ LET m == [manager EXCEPT !.used = Cardinality(manager.active_connections),
                                !.visited = {}, !.disconnected = {},
                                !.at_start = manager.active_connections,
                                !.attempts = <<>>]
       IN  IF manager.active_connections = {}
           THEN manager' = [m EXCEPT !.pc = "returned"]
           ELSE manager' \in IterNext(m)
    /\ UNCHANGED outside

\* send_text returns or raises; the exception is caught and the connection
\* noted; then the loop goes on
SendDone ==
    /\ manager.pc = "sending"
    /\ \E ok \in BOOLEAN :
          LET m == [manager EXCEPT
                      !.attempts = Append(@, [to |-> manager.current, ok |-> ok]),
                      !.disconnected = IF ok THEN @ ELSE @ \cup {manager.current}]
          IN  manager' \in IterNext(m)
    /\ UNCHANGED outside

\* the caller of broadcast goes on
BroadcastOver ==
    /\ manager.pc \in {"returned", "raised"}
    /\ manager' = [NoConnections EXCEPT
                      !.active_connections = manager.active_connections,
                      !.left = manager.left,
                      !.seen = manager.seen,
                      !.user_connections = manager.user_connections]
    /\ UNCHANGED outside

\* the user ids a caller may pass; 0 is an id that "if user_id" takes as absent
UserIds == 0..MaxUserId

\* connect(websocket, user_id), after websocket.accept()
ConnectionManager_connect(m, websocket, user_id) ==
    LET a == [m EXCEPT !.active_connections = connect(@, websocket)]
    IN  IF Truthy(user_id)
        THEN LET u == user_id[1]
                 held == IF u \in DOMAIN m.user_connections
                         THEN m.user_connections[u] ELSE {}
             IN  [a EXCEPT !.user_connections =
                     [k \in DOMAIN m.user_connections \cup {u} |->
                         IF k = u THEN held \cup {websocket}
                                  ELSE m.user_connections[k]]]
        ELSE a

\* disconnect(websocket, user_id): the set of the user is touched only when
\* a user id is given; a set left empty is deleted from the dictionary
ConnectionManager_disconnect(m, websocket, user_id) ==
    LET a == [m EXCEPT !.active_connections = disconnect(@, websocket)]
    IN  IF Truthy(user_id) /\ user_id[1] \in DOMAIN m.user_connections
        THEN LET u == user_id[1]
                 rest == m.user_connections[u] \ {websocket}
             IN  IF rest = {}
                 THEN [a EXCEPT !.user_connections =
                          [k \in DOMAIN m.user_connections \ {u} |->
                              m.user_connections[k]],
                                !.detached = @ \/ m.target = user_id]
                 ELSE [a EXCEPT !.user_connections[u] = rest]
        ELSE a

\* Another task runs only while no call of the manager is between two of its
\* awaits.
CallersMayRun == manager.pc \in {"idle", "sending", "user_sending"}

\* a caller connects a websocket not accepted before, with or without a user
ManagerConnect(w, user_id) ==
    /\ CallersMayRun
    /\ w \notin manager.seen
    /\ manager' = [ConnectionManager_connect(manager, w, user_id) EXCEPT
                      !.seen = @ \cup {w}]
    /\ UNCHANGED outside

\* a caller disconnects a websocket, with or without a user
ManagerDisconnect(w, user_id) ==
    /\ CallersMayRun
    /\ w \in manager.seen
    /\ manager' = [ConnectionManager_disconnect(manager, w, user_id) EXCEPT
                      !.left = @ \cup {w}]
    /\ UNCHANGED outside

\* the set object that send_to_user iterates: self.user_connections[user_id]
\* as it was looked up at line 102; once deleted from the dictionary it
\* stays empty, whatever is stored under the key afterwards
IteratedSet(m) ==
    IF m.detached \/ m.target[1] \notin DOMAIN m.user_connections
    THEN {}
    ELSE m.user_connections[m.target[1]]

RECURSIVE DisconnectAllOf(_, _, _)
DisconnectAllOf(m, disconnected, user_id) ==
    IF disconnected = {}
    THEN m
    ELSE LET w == CHOOSE x \in disconnected : TRUE
         IN  DisconnectAllOf(ConnectionManager_disconnect(m, w, Some(user_id)),
                             disconnected \ {w}, user_id)

\* the loop "for connection in disconnected: self.disconnect(connection,
\* user_id)", after which send_to_user returns
UserCleanUp(m) ==
    [DisconnectAllOf(m, m.disconnected, m.target[1]) EXCEPT
        !.pc = "user_returned", !.current = 0]

\* the for statement of send_to_user, over the set of the user
UserIterNext(m) ==
    IF Cardinality(IteratedSet(m)) # m.used
    THEN {[m EXCEPT !.pc = "user_raised", !.current = 0]}
    ELSE {[m EXCEPT !.pc = "user_sending", !.current = w, !.visited = @ \cup {w}] :
             w \in IteratedSet(m) \ m.visited}
         \cup (IF \/ IteratedSet(m) \subseteq m.visited
                   \/ IteratedSet(m) # m.at_start
                THEN {UserCleanUp(m)} ELSE {})

\* send_to_user is called: it returns at once for a user without an entry,
\* else it starts its loop and is suspended in the first send
send_to_user(user_id) ==
    /\ manager.pc = "idle"
    /\ IF user_id \notin DOMAIN manager.user_connections
       THEN manager' = [manager EXCEPT !.pc = "user_returned"]
       ELSE LET m == [manager EXCEPT
                         !.used = Cardinality(manager.user_connections[user_id]),
                         !.visited = {}, !.disconnected = {},
                         !.at_start = manager.user_connections[user_id],
                         !.attempts = <<>>,
                         !.target = Some(user_id), !.detached = FALSE]
            IN  manager' \in UserIterNext(m)
    /\ UNCHANGED outside

\* send_text of send_to_user returns or raises; the exception is caught and
\* the connection noted; then the loop goes on
UserSendDone ==
    /\ manager.pc = "user_sending"
    /\ \E ok \in BOOLEAN :
          LET m == [manager EXCEPT
                      !.attempts = Append(@, [to |-> manager.current, ok |-> ok]),
                      !.disconnected = IF ok THEN @ ELSE @ \cup {manager.current}]
          IN  manager' \in UserIterNext(m)
    /\ UNCHANGED outside

\* the caller of send_to_user goes on
SendToUserOver ==
    /\ manager.pc \in {"user_returned", "user_raised"}
    /\ manager' = [NoConnections EXCEPT
                      !.active_connections = manager.active_connections,
                      !.left = manager.left,
                      !.seen = manager.seen,
                      !.user_connections = manager.user_connections]
    /\ UNCHANGED outside

----------------------------------------------------------------------------
(* The cycle: FlashfoodScheduler.fetch_and_update_deals *)

IdleCycle ==
    [pc |-> "idle", run |-> 0, city_idx |-> 0, stores_data |-> <<>>, store_pos |-> 0,
     db_store |-> 0, items |-> <<>>, item_pos |-> 0, current_external_ids |-> {},
     new_items_count |-> 0, new_products |-> <<>>,
     new_deals_count |-> 0, new_deals_list |-> <<>>,
     queue |-> <<>>, notifications_sent |-> 0,
     fetched |-> <<>>, write_failed |-> {},
     item_faults |-> {}, rollback_pending |-> FALSE]

\* fetched records, for each locality of the loop so far, whether its fetch
\* returned and the stores it returned; write_failed the stores of the feed
\* for which a write of the cycle's session raised; item_faults the items
\* (store position, item position) whose own parsing or commit raised;
\* rollback_pending that the session is left with a failed transaction that
\* was not rolled back.
Returned(resp) == [ok |-> TRUE, data |-> resp]
Raised == [ok |-> FALSE, data |-> <<>>]

\* A running cycle is suspended only in the await of the upstream fetch.
\* Everywhere else it holds the event loop.
Suspended(c) == cyc[c].pc \in {"idle", "fetch"}

MayStep(c) == \A d \in Cycles \ {c} : Suspended(d)

\* the loop over tracked_cities moves on: the next fetch, or the code after it
AdvanceCity(r) ==
    IF r.city_idx < Len(tracked_cities)
    THEN [r EXCEPT !.pc = "fetch", !.city_idx = r.city_idx + 1,
                   !.stores_data = <<>>, !.store_pos = 0]
    ELSE [r EXCEPT !.pc = "notify", !.stores_data = <<>>, !.store_pos = 0]

\* the loop over stores_data moves on
AdvanceStore(r) ==
    IF r.store_pos < Len(r.stores_data)
    THEN [r EXCEPT !.pc = "store", !.store_pos = r.store_pos + 1]
    ELSE AdvanceCity(r)

\* a manual refresh, or a tick of the polling job of the started scheduler
StartCycle(c) ==
    /\ cyc[c].pc = "idle"
    /\ MayStep(c)
    /\ started < MaxCycles
    /\ c = "sched" =>
          scheduler.active /\ \E k \in 1..Len(scheduler.jobs) : scheduler.jobs[k] = JobId
    /\ started' = started + 1
    /\ now' = now + 1
    /\ cyc' = [cyc EXCEPT ![c] =
                 [IdleCycle EXCEPT !.pc = "fetch", !.run = started + 1, !.city_idx = 1]]
    /\ UNCHANGED <<store_tbl, product_tbl, price_history, env, outbox, broadcasts>>

\* get_stores_near_location returns a response
FetchReturn(c) ==
    /\ cyc[c].pc = "fetch"
    /\ MayStep(c)
    /\ \E resp \in Responses(tracked_cities[cyc[c].city_idx]) :
          cyc' = [cyc EXCEPT ![c] =
                    AdvanceStore([@ EXCEPT !.stores_data = resp, !.store_pos = 0,
                                           !.fetched = Append(@, Returned(resp))])]
    /\ UNCHANGED <<store_tbl, product_tbl, price_history, now, started, env, outbox,
                   broadcasts>>

\* (variant: a locality whose fetch failed is fetched once more at once)
FetchFailFetchedAgain(c) ==
    /\ cyc[c].pc = "fetch"
    /\ MayStep(c)
    /\ cyc' = [cyc EXCEPT ![c] =
                 IF Len(cyc[c].fetched) < cyc[c].city_idx
                 THEN [@ EXCEPT !.fetched = Append(@, Raised)]
                 ELSE AdvanceCity([@ EXCEPT !.fetched = Append(@, Raised)])]
    /\ UNCHANGED <<store_tbl, product_tbl, price_history, now, started, env, outbox,
                   broadcasts>>

\* (variant: the failure ends the loop over the localities)
FetchFailEndsLoop(c) ==
    /\ cyc[c].pc = "fetch"
    /\ MayStep(c)
    /\ cyc' = [cyc EXCEPT ![c] = [@ EXCEPT !.pc = "notify",
                                           !.fetched = Append(@, Raised)]]
    /\ UNCHANGED <<store_tbl, product_tbl, price_history, now, started, env, outbox,
                   broadcasts>>

\* get_stores_near_location raises FlashfoodAPIError: logged, next city
FetchFail(c) ==
    /\ cyc[c].pc = "fetch"
    /\ MayStep(c)
    /\ cyc' = [cyc EXCEPT ![c] = AdvanceCity([@ EXCEPT !.fetched = Append(@, Raised)])]
    /\ UNCHANGED <<store_tbl, product_tbl, price_history, now, started, env, outbox,
                   broadcasts>>

UpsertStore(c) ==
    /\ cyc[c].pc = "store"
    /\ MayStep(c)
    /\ LET r          == cyc[c]
           store_data == r.stores_data[r.store_pos]
           store_info == parse_store_data(store_data, tracked_cities[r.city_idx])
           up         == UpsertStoreOp(store_tbl, store_info)
       IN  /\ store_tbl' = up.stores
           /\ cyc' = [cyc EXCEPT ![c] =
                        [@ EXCEPT !.pc = IF store_data.items = <<>> THEN "stale" ELSE "items",
                                  !.db_store = up.id,
                                  !.items = store_data.items,
                                  !.item_pos = 1,
                                  !.current_external_ids = {},
                                  !.new_items_count = 0,
                                  !.new_products = <<>>]]
    /\ UNCHANGED <<product_tbl, price_history, now, started, env, outbox, broadcasts>>

\* one iteration of the loop over items of _process_store_items
ProcessItem(c) ==
    /\ cyc[c].pc = "items"
    /\ MayStep(c)
    /\ LET r        == cyc[c]
           raw_item == r.items[r.item_pos]
           res      == ProcessItemOp(product_tbl, price_history, r.db_store, raw_item, now)
       IN  /\ product_tbl' = res.products
           /\ price_history' = res.history
           /\ cyc' = [cyc EXCEPT ![c] =
                        [@ EXCEPT
                           !.pc = IF r.item_pos < Len(r.items) THEN "items" ELSE "stale",
                           !.item_pos = r.item_pos + 1,
                           !.current_external_ids =
                               @ \cup {parse_item_data(raw_item).external_id},
                           !.new_items_count =
                               IF res.new_id # 0 THEN @ + 1 ELSE @,
                           !.new_products =
                               IF res.new_id # 0 THEN Append(@, res.new_id) ELSE @]]
    /\ UNCHANGED <<store_tbl, now, started, env, outbox, broadcasts>>

\* the end of _process_store_items: products absent from the response
MarkStale(c) ==
    /\ cyc[c].pc = "stale"
    /\ MayStep(c)
    /\ product_tbl' = MarkStaleOp(product_tbl, cyc[c].db_store,
                                  cyc[c].current_external_ids, now)
    /\ cyc' = [cyc EXCEPT ![c] = [@ EXCEPT !.pc = "reconciled"]]
    /\ UNCHANGED <<store_tbl, price_history, now, started, env, outbox, broadcasts>>

\* (variant: the counter is set to the count of the store, not increased by it)
AccumulateCountOfStore(c) ==
    /\ cyc[c].pc = "reconciled"
    /\ MayStep(c)
    /\ cyc' = [cyc EXCEPT ![c] =
                 AdvanceStore([@ EXCEPT
                    !.new_deals_count = cyc[c].new_items_count,
                    !.new_deals_list = @ \o cyc[c].new_products])]
    /\ UNCHANGED <<store_tbl, product_tbl, price_history, now, started, env, outbox,
                   broadcasts>>

\* _process_store_items has returned: the caller accumulates its result
Accumulate(c) ==
    /\ cyc[c].pc = "reconciled"
    /\ MayStep(c)
    /\ cyc' = [cyc EXCEPT ![c] =
                 AdvanceStore([@ EXCEPT
                    !.new_deals_count = @ + cyc[c].new_items_count,
                    !.new_deals_list = @ \o cyc[c].new_products])]
    /\ UNCHANGED <<store_tbl, product_tbl, price_history, now, started, env, outbox,
                   broadcasts>>

----------------------------------------------------------------------------
(* NotificationService (notification.py)                                   *)
(*                                                                         *)
(* An entry of users is the row of "user" joined with its row of           *)
(* "user_preference" (user_preference.user_id is unique), as the users     *)
(* query joins them.                                                       *)

\* datetime.now(timezone.utc).time()
TimeOfDay(t) == t % DayLength

\* (variant: the end of the window is excluded)
is_notification_time_allowed_before_end(preferences, t) ==
    LET start_time == preferences.notification_start_time
        end_time   == preferences.notification_end_time
    IN  IF start_time <= end_time
        THEN start_time <= TimeOfDay(t) /\ TimeOfDay(t) < end_time
        ELSE TimeOfDay(t) >= start_time \/ TimeOfDay(t) < end_time

is_notification_time_allowed(preferences, t) ==
    LET start_time == preferences.notification_start_time
        end_time   == preferences.notification_end_time
    IN  IF start_time <= end_time
        THEN start_time <= TimeOfDay(t) /\ TimeOfDay(t) <= end_time
        ELSE TimeOfDay(t) >= start_time \/ TimeOfDay(t) <= end_time

\* truth value of a list: the empty list is false
NonEmpty(list) == list # {}

\* the "minimum discount" test of filter_deals_for_user: TRUE when the deal
\* is dropped by it
BelowMinDiscount(deal, preferences) ==
    /\ Truthy(deal.discount_percent)
    /\ deal.discount_percent[1] < preferences.min_discount_percent

\* (variant: the store selection is not looked at)
DealKeptInAnyStore(deal, store, preferences) ==
    /\ ~ (store.city # preferences.city)
    /\ ~ BelowMinDiscount(deal, preferences)
    /\ ~ (/\ NonEmpty(preferences.favorite_categories)
          /\ deal.category \notin preferences.favorite_categories)

\* the body of the loop of filter_deals_for_user: TRUE when the deal is kept
DealKept(deal, store, preferences) ==
    /\ ~ (store.city # preferences.city)
    /\ ~ (/\ NonEmpty(preferences.selected_store_ids)
          /\ deal.store_id \notin preferences.selected_store_ids)
    /\ ~ BelowMinDiscount(deal, preferences)
    /\ ~ (/\ NonEmpty(preferences.favorite_categories)
          /\ deal.category \notin preferences.favorite_categories)

\* deals are product ids; their attributes are read from the tables
filter_deals_for_user(deals, preferences, products, stores) ==
    SelectSeq(deals,
              LAMBDA d : DealKept(products[d], stores[products[d].store_id], preferences))

\* the users query of send_new_deal_notifications, in id order
RECURSIVE UsersFrom(_, _)
UsersFrom(us, i) ==
    IF i > Len(us) THEN <<>>
    ELSE IF us[i].email_notifications /\ us[i].notify_new_deals
         THEN <<i>> \o UsersFrom(us, i + 1)
         ELSE UsersFrom(us, i + 1)

\* (variant: the query without its filter on notify_new_deals)
users_with_email_notifications(us) ==
    SelectSeq([i \in 1..Len(us) |-> i], LAMBDA i : us[i].email_notifications)

users_with_notifications(us) == UsersFrom(us, 1)

\* user.preferences.  User.preferences is declared as
\* relationship("UserPreference", back_populates="user", cascade=...): the
\* foreign key is on the user_preference side and uselist=False is not given,
\* so the attribute loads as the collection of the user's preference rows,
\* not as a row.
user_preferences(user) == [collection |-> TRUE, rows |-> <<user>>]

\* "if not preferences": an empty collection is false
NoPreferences(preferences) == preferences.rows = <<>>

\* preferences.notification_start_time: a collection has no such attribute
AttributeError(preferences) == preferences.collection

\* the window check, the filter and deals_data for one preference row: what
\* is handed to the transport (<<>>: the user is skipped)
DealsData(preferences, new_deals, t, products, stores) ==
    IF ~ is_notification_time_allowed(preferences, t)
    THEN <<>>
    ELSE filter_deals_for_user(new_deals, preferences, products, stores)

\* the body of the loop over users up to deals_data; an exception is caught
\* by the loop's except clause, which moves on to the next user
DealsDataOfUser(user, new_deals, t, products, stores) ==
    LET preferences == user_preferences(user)
    IN  IF NoPreferences(preferences) \/ AttributeError(preferences)
        THEN <<>>
        ELSE DealsData(preferences.rows[1], new_deals, t, products, stores)

\* the deals an e-mail lists (_send_via_gmail, _send_via_resend): deals[:10]
DealsPerEmail == 10

\* (variant: the e-mail lists every deal)
AllDealsRendered(deals) == deals

RenderedDeals(deals) == SubSeq(deals, 1, IF Len(deals) < DealsPerEmail
                                         THEN Len(deals) ELSE DealsPerEmail)

\* (variant: the loop over users ends after the current user)
LeaveUsers(r) == [r EXCEPT !.pc = "broadcast", !.queue = <<>>]

\* leaving the loop over users
AdvanceUser(r) ==
    IF Len(r.queue) > 1
    THEN [r EXCEPT !.pc = "user", !.queue = Tail(r.queue)]
    ELSE [r EXCEPT !.pc = "broadcast", !.queue = <<>>]

\* after the loop over cities: "if new_deals_list:" and the users query
Notify(c) ==
    /\ cyc[c].pc = "notify"
    /\ MayStep(c)
    /\ LET q == users_with_notifications(users)
       IN  cyc' = [cyc EXCEPT ![c] =
                     IF cyc[c].new_deals_list = <<>> \/ q = <<>>
                     THEN [@ EXCEPT !.pc = "broadcast"]
                     ELSE [@ EXCEPT !.pc = "user", !.queue = q,
                                    !.notifications_sent = 0]]
    /\ UNCHANGED <<store_tbl, product_tbl, price_history, now, started, env, outbox,
                   broadcasts>>

\* send_new_deal_alert returns True or False.  Every provider runs to its
\* end without an await that suspends, and catches its own exceptions.
SendOutcomes == {"sent", "failed"}

\* the end of the loop body: the user is skipped, or send_new_deal_alert is
\* called with deals_data and its result counted
SendOrSkip(c, u, deals_data) ==
    IF deals_data = <<>>
    THEN /\ cyc' = [cyc EXCEPT ![c] = AdvanceUser(@)]
         /\ outbox' = outbox
    ELSE \E outcome \in SendOutcomes :
            /\ cyc' = [cyc EXCEPT ![c] =
                         AdvanceUser([@ EXCEPT !.notifications_sent =
                                        IF outcome = "sent" THEN @ + 1 ELSE @])]
            /\ outbox' = Append(outbox, [to      |-> u,
                                         deals   |-> deals_data,
                                         run     |-> cyc[c].run,
                                         success |-> outcome = "sent"])

\* one iteration of the loop over users
ProcessUser(c) ==
    /\ cyc[c].pc = "user"
    /\ MayStep(c)
    /\ LET u == Head(cyc[c].queue)
       IN  SendOrSkip(c, u, DealsDataOfUser(users[u], cyc[c].new_deals_list, now,
                                            product_tbl, store_tbl))
    /\ UNCHANGED <<store_tbl, product_tbl, price_history, now, started, env, broadcasts>>

\* the loop body from the window check on, applied to the user's preference
\* row itself
ProcessUserWithRow(c) ==
    /\ cyc[c].pc = "user"
    /\ MayStep(c)
    /\ LET u == Head(cyc[c].queue)
       IN  SendOrSkip(c, u, DealsData(users[u], cyc[c].new_deals_list, now,
                                      product_tbl, store_tbl))
    /\ UNCHANGED <<store_tbl, product_tbl, price_history, now, started, env, broadcasts>>

\* "if new_deals_count > 0: await manager.broadcast(...)", then db.close()
Broadcast(c) ==
    /\ cyc[c].pc = "broadcast"
    /\ MayStep(c)
    /\ broadcasts' = IF cyc[c].new_deals_count > 0
                     THEN Append(broadcasts, [run   |-> cyc[c].run,
                                              count |-> cyc[c].new_deals_count])
                     ELSE broadcasts
    /\ cyc' = [cyc EXCEPT ![c] = IdleCycle]
    /\ UNCHANGED <<store_tbl, product_tbl, price_history, now, started, env, outbox>>

----------------------------------------------------------------------------
(* The system: scheduled and manually triggered cycles over one database *)

\* two subscribers of the running system
Subscribers ==
    << [email_notifications |-> TRUE, notify_new_deals |-> TRUE, city |-> "calgary",
        selected_store_ids |-> {}, min_discount_percent |-> 0,
        favorite_categories |-> {},
        notification_start_time |-> 0, notification_end_time |-> DayLength - 1],
       [email_notifications |-> TRUE, notify_new_deals |-> TRUE, city |-> "calgary",
        selected_store_ids |-> {}, min_discount_percent |-> 30,
        favorite_categories |-> {"Bakery"},
        notification_start_time |-> DayLength - 1, notification_end_time |-> 0] >>

Init ==
    /\ store_tbl = <<>>
    /\ product_tbl = <<>>
    /\ price_history = <<>>
    /\ cyc = [c \in Cycles |-> IdleCycle]
    /\ now = 0
    /\ started = 0
    /\ users = Subscribers
    /\ tracked_cities = <<"calgary">>
    /\ outbox = <<>>
    /\ broadcasts = <<>>
    /\ scheduler = RunningScheduler
    /\ manager = NoConnections
    /\ flashfood = FlashfoodService(FALSE)

Next ==
    \E c \in Cycles :
        \/ StartCycle(c)
        \/ FetchReturn(c)
        \/ FetchFail(c)
        \/ UpsertStore(c)
        \/ ProcessItem(c)
        \/ MarkStale(c)
        \/ Accumulate(c)
        \/ Notify(c)
        \/ ProcessUser(c)
        \/ Broadcast(c)

Spec == Init /\ [][Next]_vars

\* The connection manager alone: clients come and go, and broadcasts run
NextWebsocket ==
    \/ \E w \in Clients : EndpointAccepts(w)
    \/ \E w \in Clients : EndpointCloses(w)
    \/ broadcast
    \/ SendDone
    \/ BroadcastOver

SpecWebsocket == Init /\ [][NextWebsocket]_vars

\* The connection manager as a class: any caller, any arguments
NextManager ==
    \/ \E w \in Clients, u \in UserIds : ManagerConnect(w, Some(u))
    \/ \E w \in Clients : ManagerConnect(w, None)
    \/ \E w \in Clients, u \in UserIds : ManagerDisconnect(w, Some(u))
    \/ \E w \in Clients : ManagerDisconnect(w, None)
    \/ broadcast
    \/ SendDone
    \/ BroadcastOver
    \/ \E u \in UserIds : send_to_user(u)
    \/ UserSendDone
    \/ SendToUserOver

SpecManager == Init /\ [][NextManager]_vars

\* The service alone, with and without a cache: calls with any arguments
InitCache ==
    /\ store_tbl = <<>>
    /\ product_tbl = <<>>
    /\ price_history = <<>>
    /\ cyc = [c \in Cycles |-> IdleCycle]
    /\ now = 0
    /\ started = 0
    /\ users = Subscribers
    /\ tracked_cities = <<"calgary">>
    /\ outbox = <<>>
    /\ broadcasts = <<>>
    /\ scheduler = StoppedScheduler
    /\ manager = NoConnections
    /\ \E redis_client \in BOOLEAN : flashfood = FlashfoodService(redis_client)

NextCache ==
    \/ \E args \in StoresArgs : get_stores_near_location(args)
    \/ \E key \in CacheKeys : Expire(key)

SpecCache == InitCache /\ [][NextCache]_vars

\* The service normalizing items, one after another
NextParse ==
    \E originalPrice \in RawPrices, price \in RawPrices : ParseItem(originalPrice, price)

SpecParse == InitCache /\ [][NextParse]_vars

\* Three cycles, one after another, over one store and one subscriber whom
\* every deal of the feed matches.  The upstream lists one item in the first
\* cycle, the same item at another price in the second, and no item in the
\* third; flashfood.last holds the last response of the upstream.
TraceLength == 3

MatchingSubscribers ==
    [email_notifications : {TRUE}, notify_new_deals : {TRUE}, city : {"calgary"},
     selected_store_ids : {{}, {1}}, min_discount_percent : {0, 25},
     favorite_categories : {{}, Categories},
     notification_start_time : {0}, notification_end_time : {DayLength - 1}]

TraceResponses(n, last) ==
    IF n = 1
    THEN {<<[id |-> "s1", items |-> <<item>>]>> : item \in FeedItems}
    ELSE IF n = 2
    THEN {<<[id |-> "s1", items |-> <<item>>]>> :
             item \in {r \in FeedItems :
                          /\ r.id = last[1][1].items[1].id
                          /\ r.quantityAvailable = last[1][1].items[1].quantityAvailable
                          /\ r.price # last[1][1].items[1].price}}
    ELSE {<<[id |-> "s1", items |-> <<>>]>>}

\* the nth cycle of the trace starts when no other runs
StartInTurn(c) ==
    /\ \A d \in Cycles : cyc[d].pc = "idle"
    /\ StartCycle(c)

\* get_stores_near_location returns the response of the nth cycle
ObserveTrace(c) ==
    /\ cyc[c].pc = "fetch"
    /\ MayStep(c)
    /\ \E resp \in TraceResponses(now, flashfood.last) :
          /\ cyc' = [cyc EXCEPT ![c] =
                       AdvanceStore([@ EXCEPT !.stores_data = resp, !.store_pos = 0,
                                              !.fetched = Append(@, Returned(resp))])]
          /\ flashfood' = [flashfood EXCEPT !.last = Some(resp)]
    /\ UNCHANGED <<store_tbl, product_tbl, price_history, now, started, users,
                   tracked_cities, scheduler, manager, outbox, broadcasts>>

InitTrace ==
    /\ store_tbl = <<>>
    /\ product_tbl = <<>>
    /\ price_history = <<>>
    /\ cyc = [c \in Cycles |-> IdleCycle]
    /\ now = 0
    /\ started = MaxCycles - TraceLength
    /\ \E u \in MatchingSubscribers : users = <<u>>
    /\ tracked_cities = <<"calgary">>
    /\ outbox = <<>>
    /\ broadcasts = <<>>
    /\ scheduler = RunningScheduler
    /\ manager = NoConnections
    /\ flashfood = FlashfoodService(FALSE)

NextTrace ==
    \E c \in Cycles :
        \/ StartInTurn(c)
        \/ ObserveTrace(c)
        \/ UpsertStore(c)
        \/ ProcessItem(c)
        \/ MarkStale(c)
        \/ Accumulate(c)
        \/ Notify(c)
        \/ ProcessUser(c)
        \/ Broadcast(c)

SpecTrace == InitTrace /\ [][NextTrace]_vars

\* The same, with calls that fail
NextFetchErrors ==
    \/ \E args \in StoresArgs : get_stores_near_location(args)
    \/ \E args \in StoresArgs, e \in Raisable : get_stores_near_location_raises(args, e)
    \/ \E key \in CacheKeys : Expire(key)

SpecFetchErrors == InitCache /\ [][NextFetchErrors]_vars

\* A cycle that has started goes on: the event loop runs a task that is
\* ready, and the fetch returns or fails within the timeout of its client.
Progress(c) ==
    \/ FetchReturn(c)
    \/ FetchFail(c)
    \/ UpsertStore(c)
    \/ ProcessItem(c)
    \/ MarkStale(c)
    \/ Accumulate(c)
    \/ Notify(c)
    \/ ProcessUser(c)
    \/ Broadcast(c)

FairSpec == Spec /\ \A c \in Cycles : WF_vars(Progress(c))

\* One cycle over two tracked localities, on an empty database
InitTwoCities ==
    /\ store_tbl = <<>>
    /\ product_tbl = <<>>
    /\ price_history = <<>>
    /\ cyc = [c \in Cycles |-> IdleCycle]
    /\ now = 0
    /\ started = MaxCycles - 1
    /\ users = Subscribers
    /\ tracked_cities = <<"calgary", "edmonton">>
    /\ outbox = <<>>
    /\ broadcasts = <<>>
    /\ scheduler = RunningScheduler
    /\ manager = NoConnections
    /\ flashfood = FlashfoodService(FALSE)

SpecTwoCities == InitTwoCities /\ [][Next]_vars

\* Cycles, one after another or overlapping, over two tracked localities
InitTwoCycles ==
    /\ store_tbl = <<>>
    /\ product_tbl = <<>>
    /\ price_history = <<>>
    /\ cyc = [c \in Cycles |-> IdleCycle]
    /\ now = 0
    /\ started = 0
    /\ users = Subscribers
    /\ tracked_cities = <<"calgary", "edmonton">>
    /\ outbox = <<>>
    /\ broadcasts = <<>>
    /\ scheduler = RunningScheduler
    /\ manager = NoConnections
    /\ flashfood = FlashfoodService(FALSE)

SpecTwoCycles == InitTwoCycles /\ [][Next]_vars

\* The store upsert alone: the stores of the feeds of the tracked localities,
\* sighted one after another; flashfood.last holds the store sighted last
\* and the locality whose feed listed it
SightStore(raw_store, city_key) ==
    /\ store_tbl' = UpsertStoreRow(store_tbl, parse_store_row(raw_store, city_key))
    /\ flashfood' = [flashfood EXCEPT
                        !.last = Some([raw_store |-> raw_store, city_key |-> city_key])]
    /\ UNCHANGED <<product_tbl, price_history, cyc, now, started, users,
                   tracked_cities, outbox, broadcasts, scheduler, manager>>

NextStores ==
    \E raw_store \in RawStores, k \in 1..Len(tracked_cities) :
        SightStore(raw_store, tracked_cities[k])

SpecStores == InitTwoCities /\ [][NextStores]_vars

----------------------------------------------------------------------------
(* The scheduler started and stopped while cycles run *)

\* start() and stop() are synchronous: they run while every cycle is
\* suspended
start ==
    /\ \A c \in Cycles : Suspended(c)
    /\ scheduler.calls < MaxCalls
    /\ scheduler' =
          IF scheduler.is_running
          THEN [scheduler EXCEPT !.calls = @ + 1, !.last_call = "start"]
          ELSE [scheduler EXCEPT !.jobs = add_job(@, JobId),
                                 !.active = TRUE,
                                 !.is_running = TRUE,
                                 !.calls = @ + 1, !.last_call = "start"]
    /\ UNCHANGED <<store_tbl, product_tbl, price_history, cyc, now, started, users,
                   tracked_cities, outbox, broadcasts, manager, flashfood>>

\* What AsyncIOScheduler.shutdown() does to the job store and to a job that
\* is running is the library's: the jobs are kept or dropped, a scheduled
\* cycle in flight is left alone or its task is cancelled (the cycle then
\* ends at its await with CancelledError, through "finally: db.close()").
ShutdownOutcomes == [jobs_kept : BOOLEAN, running_job_cancelled : BOOLEAN]

stop ==
    /\ \A c \in Cycles : Suspended(c)
    /\ scheduler.calls < MaxCalls
    /\ IF ~ scheduler.is_running
       THEN /\ scheduler' = [scheduler EXCEPT !.calls = @ + 1, !.last_call = "stop"]
            /\ cyc' = cyc
       ELSE \E o \in ShutdownOutcomes :
              LET cancels == o.running_job_cancelled /\ cyc["sched"].pc # "idle"
              IN  /\ scheduler' =
                        [scheduler EXCEPT !.jobs = IF o.jobs_kept THEN @ ELSE <<>>,
                                          !.active = FALSE,
                                          !.is_running = FALSE,
                                          !.calls = @ + 1, !.last_call = "stop",
                                          !.cancelled = @ \/ cancels]
                  /\ cyc' = IF cancels THEN [cyc EXCEPT !["sched"] = IdleCycle] ELSE cyc
    /\ UNCHANGED <<store_tbl, product_tbl, price_history, now, started, users,
                   tracked_cities, outbox, broadcasts, manager, flashfood>>

InitScheduler ==
    /\ store_tbl = <<>>
    /\ product_tbl = <<>>
    /\ price_history = <<>>
    /\ cyc = [c \in Cycles |-> IdleCycle]
    /\ now = 0
    /\ started = 0
    /\ users = Subscribers
    /\ tracked_cities = <<"calgary">>
    /\ outbox = <<>>
    /\ broadcasts = <<>>
    /\ scheduler = StoppedScheduler
    /\ manager = NoConnections
    /\ flashfood = FlashfoodService(FALSE)

NextScheduler ==
    \/ start
    \/ stop
    \/ Next

SpecScheduler == InitScheduler /\ [][NextScheduler]_vars

----------------------------------------------------------------------------
(* One reconciliation: a second cycle, whose fetch has returned store s1   *)
(* with a snapshot drawn from a bounded set, over the tables that a first  *)
(* cycle left after it reconciled store s2 and store s1.                   *)

PriorSnapshots == SeqsUpTo(RawItems, 2)

PriorStores ==
    <<[id |-> 1, external_id |-> "s1", city |-> "calgary"],
      [id |-> 2, external_id |-> "s2", city |-> "calgary"]>>

OtherStoreSnapshot ==
    <<[id |-> "a", price |-> 199, quantityAvailable |-> 1, originalPrice |-> 399,
       category |-> "Bakery"]>>

\* the tables after the first cycle, which ran at time 1
PriorTables(items) ==
    LET other == process_store_items(<<>>, <<>>, 2, OtherStoreSnapshot, 1)
    IN  process_store_items(other.products, other.history, 1, items, 1)

InitReconcile ==
    /\ store_tbl = PriorStores
    /\ \E prior \in PriorSnapshots :
          /\ product_tbl = PriorTables(prior).products
          /\ price_history = PriorTables(prior).history
    /\ \E items \in SeqsUpTo(RawItems, MaxSnapshot) :
          cyc = [c \in Cycles |->
                   IF c = "sched"
                   THEN [IdleCycle EXCEPT !.pc = "store", !.run = 2, !.city_idx = 1,
                                          !.stores_data = <<[id |-> "s1", items |-> items]>>,
                                          !.store_pos = 1]
                   ELSE IdleCycle]
    /\ now = 2
    /\ started = 2
    /\ users = Subscribers
    /\ tracked_cities = <<"calgary">>
    /\ outbox = <<>>
    /\ broadcasts = <<>>
    /\ scheduler = RunningScheduler
    /\ manager = NoConnections
    /\ flashfood = FlashfoodService(FALSE)

NextReconcile ==
    \E c \in Cycles :
        \/ UpsertStore(c)
        \/ ProcessItem(c)
        \/ MarkStale(c)
        \/ Accumulate(c)

SpecReconcile == InitReconcile /\ [][NextReconcile]_vars

----------------------------------------------------------------------------
(* Writes that fail: a cycle whose fetch has returned two stores of one     *)
(* locality, over the tables a first cycle left, where the commit of the    *)
(* store row or the commit that ends _process_store_items may raise.        *)

\* the exception leaves the loop over stores_data for the handler of the
\* loop over the localities, which goes on with the next locality
RaiseInStoreLoop(r) ==
    AdvanceCity([r EXCEPT !.write_failed = @ \cup {r.stores_data[r.store_pos].id}])

\* the query or the commit of the store row raises
UpsertStoreFail(c) ==
    /\ cyc[c].pc = "store"
    /\ MayStep(c)
    /\ cyc' = [cyc EXCEPT ![c] = RaiseInStoreLoop(@)]
    /\ UNCHANGED <<store_tbl, product_tbl, price_history, now, started, env, outbox,
                   broadcasts>>

\* the stale query or the last commit of _process_store_items raises: the
\* rows marked are not written, and the call does not return its result
MarkStaleFail(c) ==
    /\ cyc[c].pc = "stale"
    /\ MayStep(c)
    /\ cyc' = [cyc EXCEPT ![c] = RaiseInStoreLoop(@)]
    /\ UNCHANGED <<store_tbl, product_tbl, price_history, now, started, env, outbox,
                   broadcasts>>

\* (variant: the exception of the dispatcher reaches the handler of the
\* outer try, which ends the cycle)
DispatchRaisesEndsCycle(c) ==
    /\ cyc[c].pc = "notify"
    /\ MayStep(c)
    /\ cyc[c].write_failed # {}
    /\ cyc[c].new_deals_list # <<>>
    /\ cyc' = [cyc EXCEPT ![c] = [@ EXCEPT !.pc = "returned"]]
    /\ UNCHANGED <<store_tbl, product_tbl, price_history, now, started, env, outbox,
                   broadcasts>>

\* the session is not rolled back after a failed commit: the users query of
\* the dispatcher may raise, which the caller logs
DispatchRaises(c) ==
    /\ cyc[c].pc = "notify"
    /\ MayStep(c)
    /\ cyc[c].write_failed # {}
    /\ cyc[c].new_deals_list # <<>>
    /\ cyc' = [cyc EXCEPT ![c] = [@ EXCEPT !.pc = "broadcast"]]
    /\ UNCHANGED <<store_tbl, product_tbl, price_history, now, started, env, outbox,
                   broadcasts>>

InitWriteFailure ==
    /\ store_tbl = PriorStores
    /\ \E prior \in Snapshots :
          /\ product_tbl = PriorTables(prior).products
          /\ price_history = PriorTables(prior).history
    /\ \E first \in Snapshots, second \in Snapshots :
          LET resp == <<[id |-> "s1", items |-> first], [id |-> "s2", items |-> second]>>
          IN  cyc = [c \in Cycles |->
                       IF c = "sched"
                       THEN [IdleCycle EXCEPT !.pc = "store", !.run = 2, !.city_idx = 1,
                                              !.stores_data = resp, !.store_pos = 1,
                                              !.fetched = <<Returned(resp)>>]
                       ELSE IdleCycle]
    /\ now = 2
    /\ started = 2
    /\ users = Subscribers
    /\ tracked_cities = <<"calgary">>
    /\ outbox = <<>>
    /\ broadcasts = <<>>
    /\ scheduler = RunningScheduler
    /\ manager = NoConnections
    /\ flashfood = FlashfoodService(FALSE)

NextWriteFailure ==
    \E c \in Cycles :
        \/ UpsertStore(c)
        \/ UpsertStoreFail(c)
        \/ ProcessItem(c)
        \/ MarkStale(c)
        \/ MarkStaleFail(c)
        \/ Accumulate(c)
        \/ Notify(c)
        \/ DispatchRaises(c)
        \/ ProcessUser(c)
        \/ Broadcast(c)

SpecWriteFailure == InitWriteFailure /\ [][NextWriteFailure]_vars

----------------------------------------------------------------------------
(* Items that fail: the same cycle, where parse_item_data or the commit of  *)
(* one item may raise inside the try of the loop over items.  The handler   *)
(* logs and continues; it does not call db.rollback().  Whether the session *)
(* can be used after a failed commit is the library's matter: a failed      *)
(* flush leaves it refusing every further statement until rollback(), a     *)
(* failure elsewhere may leave it usable.                                   *)

SessionUsable(c) == ~cyc[c].rollback_pending

\* "continue": the loop over items moves on
NextItem(r) ==
    [r EXCEPT !.pc = IF r.item_pos < Len(r.items) THEN "items" ELSE "stale",
              !.item_pos = r.item_pos + 1]

\* parse_item_data raises (line 159): the external id is not recorded
ParseItemFail(c) ==
    /\ cyc[c].pc = "items"
    /\ MayStep(c)
    /\ cyc' = [cyc EXCEPT ![c] =
                 NextItem([@ EXCEPT !.item_faults =
                                        @ \cup {<<cyc[c].store_pos, cyc[c].item_pos>>}])]
    /\ UNCHANGED <<store_tbl, product_tbl, price_history, now, started, env, outbox,
                   broadcasts>>

\* the commit of the item raises (line 173, or line 210 for a product found):
\* nothing of it is written
CommitItemFail(c) ==
    /\ cyc[c].pc = "items"
    /\ MayStep(c)
    /\ SessionUsable(c)
    /\ \E pending \in BOOLEAN :
          cyc' = [cyc EXCEPT ![c] =
                    NextItem([@ EXCEPT
                       !.current_external_ids =
                           @ \cup {parse_item_data(cyc[c].items[cyc[c].item_pos]).external_id},
                       !.item_faults = @ \cup {<<cyc[c].store_pos, cyc[c].item_pos>>},
                       !.rollback_pending = pending])]
    /\ UNCHANGED <<store_tbl, product_tbl, price_history, now, started, env, outbox,
                   broadcasts>>

\* the product is new and committed (line 173), counted and listed (180-181);
\* then the commit of its first history point (line 210) raises
HistoryCommitFail(c) ==
    /\ cyc[c].pc = "items"
    /\ MayStep(c)
    /\ SessionUsable(c)
    /\ LET item_info == parse_item_data(cyc[c].items[cyc[c].item_pos])
           row       == NewProductRow(product_tbl, cyc[c].db_store, item_info, now)
       IN  /\ FindProduct(product_tbl, cyc[c].db_store, item_info.external_id) = 0
           /\ product_tbl' = Append(product_tbl, row)
           /\ \E pending \in BOOLEAN :
                 cyc' = [cyc EXCEPT ![c] =
                           NextItem([@ EXCEPT
                              !.current_external_ids = @ \cup {item_info.external_id},
                              !.new_items_count = @ + 1,
                              !.new_products = Append(@, row.id),
                              !.item_faults = @ \cup {<<cyc[c].store_pos, cyc[c].item_pos>>},
                              !.rollback_pending = pending])]
    /\ UNCHANGED <<store_tbl, price_history, now, started, env, outbox, broadcasts>>

\* the product query of a later item (line 164) raises on the session
ItemRaisesPending(c) ==
    /\ cyc[c].pc = "items"
    /\ MayStep(c)
    /\ ~SessionUsable(c)
    /\ cyc' = [cyc EXCEPT ![c] =
                 NextItem([@ EXCEPT
                    !.current_external_ids =
                        @ \cup {parse_item_data(cyc[c].items[cyc[c].item_pos]).external_id}])]
    /\ UNCHANGED <<store_tbl, product_tbl, price_history, now, started, env, outbox,
                   broadcasts>>

\* the stale query (line 218) raises on the session, outside the try of the
\* loop over items
StaleRaisesPending(c) == ~SessionUsable(c) /\ MarkStaleFail(c)

InitItemFailure ==
    /\ store_tbl = PriorStores
    /\ \E prior \in Snapshots :
          /\ product_tbl = PriorTables(prior).products
          /\ price_history = PriorTables(prior).history
    /\ \E first \in SeqsUpTo(FeedItems, MaxSnapshot), second \in {<<>>, OtherStoreSnapshot} :
          LET resp == <<[id |-> "s1", items |-> first], [id |-> "s2", items |-> second]>>
          IN  cyc = [c \in Cycles |->
                       IF c = "sched"
                       THEN [IdleCycle EXCEPT !.pc = "store", !.run = 2, !.city_idx = 1,
                                              !.stores_data = resp, !.store_pos = 1,
                                              !.fetched = <<Returned(resp)>>]
                       ELSE IdleCycle]
    /\ now = 2
    /\ started = 2
    /\ users = Subscribers
    /\ tracked_cities = <<"calgary">>
    /\ outbox = <<>>
    /\ broadcasts = <<>>
    /\ scheduler = RunningScheduler
    /\ manager = NoConnections
    /\ flashfood = FlashfoodService(FALSE)

NextItemFailure ==
    \E c \in Cycles :
        \/ SessionUsable(c) /\ UpsertStore(c)
        \/ SessionUsable(c) /\ ProcessItem(c)
        \/ ParseItemFail(c)
        \/ CommitItemFail(c)
        \/ HistoryCommitFail(c)
        \/ ItemRaisesPending(c)
        \/ SessionUsable(c) /\ MarkStale(c)
        \/ StaleRaisesPending(c)
        \/ Accumulate(c)
        \/ (SessionUsable(c) \/ cyc[c].new_deals_list = <<>>) /\ Notify(c)
        \/ DispatchRaises(c)
        \/ ProcessUser(c)
        \/ Broadcast(c)

SpecItemFailure == InitItemFailure /\ [][NextItemFailure]_vars

----------------------------------------------------------------------------
(* A whole call of fetch_and_update_deals with every failure it handles,    *)
(* and its caller.  pc "returned" and "raised" are the two ways the call    *)
(* ends: control is back in the caller, which for a manual refresh is       *)
(* manual_refresh (main.py) and for a tick the executor of the job.         *)

\* (variant: the exception leaves the call)
Reraised(r) == [r EXCEPT !.pc = "raised"]

\* "except Exception" of the outer try (130-131), then "finally: db.close()"
Caught(r) == [r EXCEPT !.pc = "returned"]

\* SessionLocal() raises (line 57, before the outer try): the call raises
\* before any locality is attempted
SetupFail(c) ==
    /\ cyc[c].pc = "idle"
    /\ MayStep(c)
    /\ started < MaxCycles
    /\ c = "sched" =>
          scheduler.active /\ \E k \in 1..Len(scheduler.jobs) : scheduler.jobs[k] = JobId
    /\ started' = started + 1
    /\ now' = now + 1
    /\ cyc' = [cyc EXCEPT ![c] = [IdleCycle EXCEPT !.pc = "raised", !.run = started + 1]]
    /\ UNCHANGED <<store_tbl, product_tbl, price_history, env, outbox, broadcasts>>

\* "if new_deals_count > 0: await manager.broadcast(...)" returns, or there
\* is nothing to broadcast; then db.close() and the call returns
BroadcastAndReturn(c) ==
    /\ cyc[c].pc = "broadcast"
    /\ MayStep(c)
    /\ broadcasts' = IF cyc[c].new_deals_count > 0
                     THEN Append(broadcasts, [run   |-> cyc[c].run,
                                              count |-> cyc[c].new_deals_count])
                     ELSE broadcasts
    /\ cyc' = [cyc EXCEPT ![c] = [@ EXCEPT !.pc = "returned"]]
    /\ UNCHANGED <<store_tbl, product_tbl, price_history, now, started, env, outbox>>

\* manager.broadcast raises (its loop over the set of connections is not
\* inside its try)
BroadcastFail(c) ==
    /\ cyc[c].pc = "broadcast"
    /\ MayStep(c)
    /\ cyc[c].new_deals_count > 0
    /\ cyc' = [cyc EXCEPT ![c] = Caught(@)]
    /\ UNCHANGED <<store_tbl, product_tbl, price_history, now, started, env, outbox,
                   broadcasts>>

\* (variant: a call that returned after a failure is answered as an error)
manual_refresh_reporting_failures(r) ==
    IF /\ r.pc = "returned"
       /\ r.write_failed = {}
       /\ r.item_faults = {}
       /\ \A i \in 1..Len(r.fetched) : r.fetched[i].ok
    THEN [status_code |-> 200,
          body |-> [status |-> "success", message |-> "Data refresh completed"]]
    ELSE [status_code |-> 500, body |-> [detail |-> "Refresh failed"]]

\* manual_refresh (main.py:201-207): what the endpoint answers when the call
\* has ended as in r
manual_refresh(r) ==
    IF r.pc = "returned"
    THEN [status_code |-> 200,
          body |-> [status |-> "success", message |-> "Data refresh completed"]]
    ELSE [status_code |-> 500, body |-> [detail |-> "Refresh failed"]]

\* the caller goes on: the answer is sent, or the executor logs the job
Respond(c) ==
    /\ cyc[c].pc \in {"returned", "raised"}
    /\ cyc' = [cyc EXCEPT ![c] = IdleCycle]
    /\ UNCHANGED <<store_tbl, product_tbl, price_history, now, started, env, outbox,
                   broadcasts>>

\* a store of the upstream listing two items
PairSnapshot ==
    <<[id |-> "a", price |-> 199, quantityAvailable |-> 1, originalPrice |-> 399,
       category |-> "Bakery"],
      [id |-> "b", price |-> 299, quantityAvailable |-> 1, originalPrice |-> 399,
       category |-> "Bakery"]>>

\* get_stores_near_location returns a response whose store lists two items
FetchReturnPair(c) ==
    /\ cyc[c].pc = "fetch"
    /\ MayStep(c)
    /\ \E s \in StoresNear(tracked_cities[cyc[c].city_idx]) :
          LET resp == <<[id |-> s, items |-> PairSnapshot]>>
          IN  cyc' = [cyc EXCEPT ![c] =
                        AdvanceStore([@ EXCEPT !.stores_data = resp, !.store_pos = 0,
                                               !.fetched = Append(@, Returned(resp))])]
    /\ UNCHANGED <<store_tbl, product_tbl, price_history, now, started, env, outbox,
                   broadcasts>>

NextFailures ==
    \E c \in Cycles :
        \/ StartCycle(c)
        \/ SetupFail(c)
        \/ FetchReturn(c)
        \/ FetchReturnPair(c)
        \/ FetchFail(c)
        \/ SessionUsable(c) /\ UpsertStore(c)
        \/ UpsertStoreFail(c)
        \/ SessionUsable(c) /\ ProcessItem(c)
        \/ ParseItemFail(c)
        \/ CommitItemFail(c)
        \/ HistoryCommitFail(c)
        \/ ItemRaisesPending(c)
        \/ SessionUsable(c) /\ MarkStale(c)
        \/ MarkStaleFail(c)
        \/ Accumulate(c)
        \/ (SessionUsable(c) \/ cyc[c].new_deals_list = <<>>) /\ Notify(c)
        \/ DispatchRaises(c)
        \/ ProcessUser(c)
        \/ BroadcastAndReturn(c)
        \/ BroadcastFail(c)
        \/ Respond(c)

\* every step of a call but its start
ProgressFailures(c) ==
    \/ FetchReturn(c)
    \/ FetchReturnPair(c)
    \/ FetchFail(c)
    \/ SessionUsable(c) /\ UpsertStore(c)
    \/ UpsertStoreFail(c)
    \/ SessionUsable(c) /\ ProcessItem(c)
    \/ ParseItemFail(c)
    \/ CommitItemFail(c)
    \/ HistoryCommitFail(c)
    \/ ItemRaisesPending(c)
    \/ SessionUsable(c) /\ MarkStale(c)
    \/ MarkStaleFail(c)
    \/ Accumulate(c)
    \/ (SessionUsable(c) \/ cyc[c].new_deals_list = <<>>) /\ Notify(c)
    \/ DispatchRaises(c)
    \/ ProcessUser(c)
    \/ BroadcastAndReturn(c)
    \/ BroadcastFail(c)
    \/ Respond(c)

\* A call that has started goes on: the event loop runs a task that is
\* ready, and every external call returns or fails.
SpecFailures ==
    InitTwoCities /\ [][NextFailures]_vars /\ \A c \in Cycles : WF_vars(ProgressFailures(c))

----------------------------------------------------------------------------
(* One dispatch: a cycle that has reconciled its last city, with the new   *)
(* deals it found, and the subscribers' preferences drawn from bounded     *)
(* sets.                                                                   *)

TwoStores ==
    <<[id |-> 1, external_id |-> "s1", city |-> "calgary"],
      [id |-> 2, external_id |-> "s2", city |-> "edmonton"]>>

\* (original price, discount price) of the listings: 25 %, 15 %, 0 % and no
\* discount percent
DealPrices == {<<400, 300>>, <<400, 340>>, <<400, 400>>, <<0, 300>>}

\* n listings, all new: listing i as item i of its store, with the same
\* prices, all at store 1 or alternating between the two stores
NewDeals(n, mixed, prices) ==
    [i \in 1..n |->
        NewProductRow([k \in 1..(i - 1) |-> k],
                      IF mixed THEN 1 + (i % 2) ELSE 1,
                      parse_item_data([id |-> i, price |-> prices[2],
                                       quantityAvailable |-> 1,
                                       originalPrice |-> prices[1],
                                       category |-> "Bakery"]),
                      0)]

Windows == {<<0, DayLength - 1>>, <<1, 1>>, <<DayLength - 1, 0>>}

Preferences(flags, cities, thresholds, windows) ==
    {[email_notifications |-> e, notify_new_deals |-> n, city |-> ct,
      selected_store_ids |-> {}, min_discount_percent |-> m,
      favorite_categories |-> {},
      notification_start_time |-> w[1], notification_end_time |-> w[2]] :
        e \in flags, n \in flags, ct \in cities, m \in thresholds, w \in windows}

InitDispatch ==
    /\ store_tbl = TwoStores
    /\ \E n \in 0..MaxDeals, mixed \in BOOLEAN, prices \in DealPrices :
          /\ product_tbl = NewDeals(n, mixed, prices)
          /\ price_history =
                [i \in 1..n |-> [product_id |-> i, price |-> prices[2],
                                 quantity_available |-> 1]]
          /\ cyc = [c \in Cycles |->
                      IF c = "sched"
                      THEN [IdleCycle EXCEPT !.pc = "notify", !.run = 1, !.city_idx = 2,
                                             !.new_deals_count = n,
                                             !.new_deals_list = [i \in 1..n |-> i]]
                      ELSE IdleCycle]
    /\ now \in 0..(DayLength - 1)
    /\ started = 1
    /\ users \in {<<p, q>> :
                    p \in Preferences(BOOLEAN, {"calgary", "edmonton"}, {0, 20}, Windows),
                    q \in Preferences({TRUE}, {"calgary"}, {20},
                                     {<<0, DayLength - 1>>, <<DayLength - 1, 0>>})}
    /\ tracked_cities = <<"calgary", "edmonton">>
    /\ outbox = <<>>
    /\ broadcasts = <<>>
    /\ scheduler = RunningScheduler
    /\ manager = NoConnections
    /\ flashfood = FlashfoodService(FALSE)

NextDispatch ==
    \E c \in Cycles :
        \/ Notify(c)
        \/ ProcessUser(c)
        \/ Broadcast(c)

SpecDispatch == InitDispatch /\ [][NextDispatch]_vars

\* The window check, the filter, deals_data and the send as functions of a
\* preference row: the same dispatch, with the loop body applied to the row
\* of each user.
NextPreferenceRow ==
    \E c \in Cycles :
        \/ Notify(c)
        \/ ProcessUserWithRow(c)
        \/ Broadcast(c)

SpecPreferenceRow == InitDispatch /\ [][NextPreferenceRow]_vars

----------------------------------------------------------------------------
(* filter_deals_for_user on a few new deals of either store and category,  *)
(* for one subscriber whose preference row is drawn with and without a     *)
(* store selection and favorite categories.                                *)

\* (store id, category, (original price, discount price)) of a listing
FilterChoices == {1, 2} \X {"Bakery", "Dairy"} \X DealPrices

FilterDeals(choices) ==
    [i \in 1..Len(choices) |->
        NewProductRow([k \in 1..(i - 1) |-> k],
                      choices[i][1],
                      parse_item_data([id |-> i, price |-> choices[i][3][2],
                                       quantityAvailable |-> 1,
                                       originalPrice |-> choices[i][3][1],
                                       category |-> choices[i][2]]),
                      0)]

FilterPreferences ==
    {[email_notifications |-> TRUE, notify_new_deals |-> TRUE, city |-> ct,
      selected_store_ids |-> sel, min_discount_percent |-> m,
      favorite_categories |-> fav,
      notification_start_time |-> 0, notification_end_time |-> DayLength - 1] :
        ct \in {"calgary", "edmonton"}, sel \in {{}, {1}, {2}}, m \in {0, 20},
        fav \in {{}, {"Bakery"}}}

InitFilter ==
    /\ store_tbl = TwoStores
    /\ \E choices \in SeqsUpTo(FilterChoices, MaxFilterDeals) :
          /\ product_tbl = FilterDeals(choices)
          /\ price_history =
                [i \in 1..Len(choices) |->
                    [product_id |-> i, price |-> choices[i][3][2],
                     quantity_available |-> 1]]
          /\ cyc = [c \in Cycles |->
                      IF c = "sched"
                      THEN [IdleCycle EXCEPT !.pc = "notify", !.run = 1, !.city_idx = 2,
                                             !.new_deals_count = Len(choices),
                                             !.new_deals_list = [i \in 1..Len(choices) |-> i]]
                      ELSE IdleCycle]
    /\ now = 0
    /\ started = 1
    /\ users \in {<<p>> : p \in FilterPreferences}
    /\ tracked_cities = <<"calgary", "edmonton">>
    /\ outbox = <<>>
    /\ broadcasts = <<>>
    /\ scheduler = RunningScheduler
    /\ manager = NoConnections
    /\ flashfood = FlashfoodService(FALSE)

SpecFilter == InitFilter /\ [][NextPreferenceRow]_vars

----------------------------------------------------------------------------
(* is_notification_time_allowed for every window and every time of day:    *)
(* one new deal that matches both subscribers, whose windows are drawn.    *)

AllWindows == (0..(DayLength - 1)) \X (0..(DayLength - 1))

InitWindow ==
    /\ store_tbl = TwoStores
    /\ product_tbl = NewDeals(1, FALSE, <<400, 300>>)
    /\ price_history = <<[product_id |-> 1, price |-> 300, quantity_available |-> 1]>>
    /\ cyc = [c \in Cycles |->
                IF c = "sched"
                THEN [IdleCycle EXCEPT !.pc = "notify", !.run = 1, !.city_idx = 2,
                                       !.new_deals_count = 1,
                                       !.new_deals_list = <<1>>]
                ELSE IdleCycle]
    /\ now \in 0..(DayLength - 1)
    /\ started = 1
    /\ users \in {<<p, q>> :
                    p \in Preferences({TRUE}, {"calgary"}, {0}, AllWindows),
                    q \in Preferences({TRUE}, {"calgary"}, {0}, AllWindows)}
    /\ tracked_cities = <<"calgary", "edmonton">>
    /\ outbox = <<>>
    /\ broadcasts = <<>>
    /\ scheduler = RunningScheduler
    /\ manager = NoConnections
    /\ flashfood = FlashfoodService(FALSE)

SpecWindow == InitWindow /\ [][NextPreferenceRow]_vars

----------------------------------------------------------------------------
(* Properties of the reconciliation *)

Range(q) == {q[k] : k \in 1..Len(q)}

RowsFor(products, store_id, external_id) ==
    {i \in 1..Len(products) :
        products[i].store_id = store_id /\ products[i].external_id = external_id}

PointsOf(history, product_id) ==
    {k \in 1..Len(history) : history[k].product_id = product_id}

SnapshotIds(items) == {items[k].id : k \in 1..Len(items)}

\* cycle c takes the step that processes its current item
ItemStep(c) == cyc[c].pc = "items" /\ cyc'[c] # cyc[c]

CurItem(c) == cyc[c].items[cyc[c].item_pos]

CurRows(c) == RowsFor(product_tbl, cyc[c].db_store, CurItem(c).id)

Observed(item) == [price |-> item.price, quantity_available |-> item.quantityAvailable]

Stored(row) == [price |-> row.discount_price, quantity_available |-> row.quantity_available]

\* C1: an item whose external id has no product row for the store gets one
\* product row and exactly one PriceHistoryPoint with the observed discount
\* price and quantity, and the product is in the cycle's list of new deals.
C1_FirstSighting ==
    [][\A c \in Cycles :
        /\ (ItemStep(c) /\ CurRows(c) = {}) =>
              LET pid == Len(product_tbl) + 1
              IN  /\ Len(product_tbl') = pid
                  /\ RowsFor(product_tbl', cyc[c].db_store, CurItem(c).id) = {pid}
                  /\ Stored(product_tbl'[pid]) = Observed(CurItem(c))
                  /\ Len(price_history') = Len(price_history) + 1
                  /\ SubSeq(price_history', 1, Len(price_history)) = price_history
                  /\ price_history'[Len(price_history')] =
                        [product_id |-> pid, price |-> CurItem(c).price,
                         quantity_available |-> CurItem(c).quantityAvailable]
                  /\ cyc'[c].new_products = Append(cyc[c].new_products, pid)
                  /\ cyc'[c].new_items_count = cyc[c].new_items_count + 1
        /\ (cyc[c].pc = "reconciled" /\ cyc'[c] # cyc[c]) =>
              /\ cyc'[c].new_deals_list = cyc[c].new_deals_list \o cyc[c].new_products
              /\ cyc'[c].new_deals_count =
                    cyc[c].new_deals_count + Len(cyc[c].new_products)
      ]_vars

C1_Witness ==
    \E c \in Cycles :
        /\ cyc[c].pc = "notify"
        /\ cyc[c].new_deals_list # <<>>
        /\ \A p \in Range(cyc[c].new_deals_list) :
              Cardinality(PointsOf(price_history, p)) = 1

\* the item is observed again and its price or quantity differs from the row
ChangedStep(c) ==
    /\ ItemStep(c)
    /\ CurRows(c) # {}
    /\ \E i \in CurRows(c) : Stored(product_tbl[i]) # Observed(CurItem(c))

\* exactly one point, with the observed values, is appended for product i
OnePointAppended(c, i) ==
    /\ Len(price_history') = Len(price_history) + 1
    /\ SubSeq(price_history', 1, Len(price_history)) = price_history
    /\ price_history'[Len(price_history')] =
          [product_id |-> i, price |-> CurItem(c).price,
           quantity_available |-> CurItem(c).quantityAvailable]

C3_UnchangedItem ==
    [][\A c \in Cycles :
        (/\ ItemStep(c)
         /\ CurRows(c) # {}
         /\ \A i \in CurRows(c) : Stored(product_tbl[i]) = Observed(CurItem(c))) =>
            /\ price_history' = price_history
            /\ cyc'[c].new_products = cyc[c].new_products
            /\ cyc'[c].new_items_count = cyc[c].new_items_count
            /\ Len(product_tbl') = Len(product_tbl)
            /\ \A i \in CurRows(c) :
                  /\ product_tbl'[i].last_seen = now
                  /\ product_tbl'[i].last_seen >= product_tbl[i].last_seen
                  /\ Stored(product_tbl'[i]) = Stored(product_tbl[i])
      ]_vars

C3_Witness ==
    \E c \in Cycles :
        /\ cyc[c].pc = "stale"
        /\ Len(cyc[c].items) = 1
        /\ cyc[c].new_products = <<>>
        /\ now = 2
        /\ \E i \in RowsFor(product_tbl, cyc[c].db_store, cyc[c].items[1].id) :
              /\ Cardinality(PointsOf(price_history, i)) = 1
              /\ Stored(product_tbl[i]) = Observed(cyc[c].items[1])
              /\ product_tbl[i].last_seen = 2

\* cycle c takes the step that marks the stale products of its store
StaleStep(c) == cyc[c].pc = "stale" /\ cyc'[c] # cyc[c]

\* C4: after a store is reconciled, every product of the store that had
\* quantity_available > 0 and is absent from the snapshot has quantity 0, its
\* row still exists, and it is not reported as a new deal.
C4_StaleMarked ==
    [][\A c \in Cycles : StaleStep(c) =>
          /\ Len(product_tbl') = Len(product_tbl)
          /\ cyc'[c].new_products = cyc[c].new_products
          /\ cyc'[c].new_deals_list = cyc[c].new_deals_list
          /\ \A i \in 1..Len(product_tbl) :
                (/\ product_tbl[i].store_id = cyc[c].db_store
                 /\ product_tbl[i].quantity_available > 0
                 /\ product_tbl[i].external_id \notin SnapshotIds(cyc[c].items)) =>
                    /\ product_tbl'[i].quantity_available = 0
                    /\ product_tbl'[i].external_id = product_tbl[i].external_id
                    /\ product_tbl'[i].store_id = product_tbl[i].store_id
                    /\ i \notin Range(cyc'[c].new_products)
      ]_vars

C4_Witness ==
    \E c \in Cycles :
        /\ cyc[c].pc = "reconciled"
        /\ \E i \in 1..Len(product_tbl) :
              /\ product_tbl[i].store_id = cyc[c].db_store
              /\ product_tbl[i].external_id \notin SnapshotIds(cyc[c].items)
              /\ product_tbl[i].quantity_available = 0
              /\ product_tbl[i].last_seen = now
              /\ \E k \in PointsOf(price_history, i) :
                    /\ price_history[k].quantity_available > 0
                    /\ \A m \in PointsOf(price_history, i) : m <= k

\* the second reconciliation of the snapshot that cycle c has just reconciled
SecondRun(c) ==
    process_store_items(product_tbl, price_history, cyc[c].db_store, cyc[c].items,
                        now + 1)

\* C5 as stated: reconciling the identical snapshot a second time right after
\* the first adds no PriceHistoryPoint and reports no new product.
C5_Idempotent ==
    \A c \in Cycles : cyc[c].pc = "reconciled" =>
        /\ SecondRun(c).history = price_history
        /\ SecondRun(c).new_products = <<>>

\* no external id occurs twice in the snapshot with different price or quantity
DuplicatesAgree(items) ==
    \A j, k \in 1..Len(items) :
        items[j].id = items[k].id => Observed(items[j]) = Observed(items[k])

\* C5 as amended: for a snapshot in which no external id occurs twice with a
\* different price or quantity, reconciling it a second time right after the
\* first adds no PriceHistoryPoint, creates no product row and reports no new
\* product.
C5_IdempotentDistinctIds ==
    \A c \in Cycles : (cyc[c].pc = "reconciled" /\ DuplicatesAgree(cyc[c].items)) =>
        /\ SecondRun(c).history = price_history
        /\ SecondRun(c).new_products = <<>>
        /\ Len(SecondRun(c).products) = Len(product_tbl)

C5_Witness ==
    \E c \in Cycles :
        /\ cyc[c].pc = "reconciled"
        /\ DuplicatesAgree(cyc[c].items)
        /\ Len(cyc[c].items) = 2
        /\ cyc[c].new_products # <<>>
        /\ Len(product_tbl) > Len(cyc[c].new_products)

\* C6: there is at most one product row for each (store, external id).
C6_OneRowPerListing ==
    \A i, j \in 1..Len(product_tbl) :
        (/\ product_tbl[i].store_id = product_tbl[j].store_id
         /\ product_tbl[i].external_id = product_tbl[j].external_id) => i = j

\* the two cycles overlapped: the second ran from start to end while the
\* first was suspended in its fetch, and the first now reconciles items that
\* all have a row already
C6_Witness ==
    \E c, d \in Cycles :
        /\ c # d
        /\ started = 2
        /\ cyc[d].pc = "idle"
        /\ cyc[c].pc = "stale"
        /\ cyc[c].run = 1
        /\ cyc[c].items # <<>>
        /\ cyc[c].new_products = <<>>

----------------------------------------------------------------------------
(* Properties of the fan-out *)

\* the listing, (store, external id), of a product
Listing(p) == <<product_tbl[p].store_id, product_tbl[p].external_id>>

\* the times listing l was sent to user u: (call, position in its payload)
SendsOf(u, l) ==
    {<<k, m>> \in (1..Len(outbox)) \X (1..MaxDeals) :
        /\ outbox[k].to = u
        /\ m <= Len(outbox[k].deals)
        /\ Listing(outbox[k].deals[m]) = l}

\* the products cycle c holds as new
NewOf(c) ==
    Range(cyc[c].new_deals_list) \cup
    (IF cyc[c].pc \in {"items", "stale", "reconciled"}
     THEN Range(cyc[c].new_products) ELSE {})

NoRepeat(q) == \A j, k \in 1..Len(q) : q[j] = q[k] => j = k

\* the window test as the claim states it
InWindow(preferences, t) ==
    LET from  == preferences.notification_start_time
        until == preferences.notification_end_time
    IN  \/ (from <= until /\ from <= TimeOfDay(t) /\ TimeOfDay(t) <= until)
        \/ (from > until /\ (TimeOfDay(t) >= from \/ TimeOfDay(t) <= until))

\* the new deals of cycle c that pass the filters of user u
Matching(u, c) ==
    filter_deals_for_user(cyc[c].new_deals_list, users[u], product_tbl, store_tbl)

\* user u passes all the checks of the dispatch of cycle c
Qualifies(u, c) ==
    /\ users[u].email_notifications
    /\ users[u].notify_new_deals
    /\ InWindow(users[u], now)
    /\ Matching(u, c) # <<>>

\* cycle c takes the step that processes the user at the head of its queue
UserStep(c) == cyc[c].pc = "user" /\ cyc'[c] # cyc[c]

\* C7: a listing is placed in the new-deal list of one cycle only, when its
\* row is created, and is sent to a subscriber in at most one notification
\* over all cycles; the subscriber who passes all filters in that cycle is
\* sent it in one notification.
C7_NotifiedOnce ==
    /\ [](/\ \A u \in 1..Len(users) : \A p \in 1..Len(product_tbl) :
                Cardinality(SendsOf(u, Listing(p))) <= 1
          /\ \A c, d \in Cycles : c # d => NewOf(c) \cap NewOf(d) = {}
          /\ \A c \in Cycles :
                /\ NoRepeat(cyc[c].new_deals_list)
                /\ \A p, q \in NewOf(c) : Listing(p) = Listing(q) => p = q)
    /\ [][\A c \in Cycles :
            /\ \A p \in Range(cyc'[c].new_products) \ Range(cyc[c].new_products) :
                  p > Len(product_tbl) /\ p <= Len(product_tbl')
            /\ Range(cyc'[c].new_deals_list) \subseteq
                  Range(cyc[c].new_deals_list) \cup Range(cyc[c].new_products)
            /\ UserStep(c) =>
                  LET u == Head(cyc[c].queue)
                  IN  IF Qualifies(u, c)
                      THEN /\ Len(outbox') = Len(outbox) + 1
                           /\ outbox'[Len(outbox')].to = u
                           /\ outbox'[Len(outbox')].deals = Matching(u, c)
                      ELSE outbox' = outbox
       ]_vars

\* a cycle is over that found new deals and announced them, a later cycle has
\* started, and no subscriber has been sent anything
C7_Witness ==
    /\ started = 2
    /\ broadcasts # <<>>
    /\ \E c \in Cycles : cyc[c].pc = "idle"
    /\ outbox = <<>>

\* the calls of the transport for user u
CallsTo(u) == {k \in 1..Len(outbox) : outbox[k].to = u}

\* the cycle that dispatches still holds its list of new deals
Dispatching == cyc["sched"].pc # "idle"

\* C8: within one dispatch the transport is called exactly once for every
\* subscriber who has both flags enabled, is inside the time window and has
\* at least one matching new deal, with all the matching deals in the one
\* payload, and is not called for any other subscriber.
C8_OneCallPerQualifying ==
    /\ \A u \in 1..Len(users) : Cardinality(CallsTo(u)) <= 1
    /\ Dispatching =>
          \A k \in 1..Len(outbox) :
              /\ Qualifies(outbox[k].to, "sched")
              /\ outbox[k].deals = Matching(outbox[k].to, "sched")
    /\ cyc["sched"].pc = "broadcast" =>
          \A u \in 1..Len(users) : Qualifies(u, "sched") => Cardinality(CallsTo(u)) = 1

\* the dispatch is over and a subscriber who passes every check was not sent
\* anything
C8_Witness ==
    /\ cyc["sched"].pc = "broadcast"
    /\ \E u \in 1..Len(users) : Qualifies(u, "sched") /\ CallsTo(u) = {}

MeetsMinDiscount(deal, preferences) ==
    IF deal.discount_percent = None
    THEN preferences.min_discount_percent = 0
    ELSE deal.discount_percent[1] >= preferences.min_discount_percent

\* C10: a deal is kept for a subscriber only if its discount percent is >=
\* the subscriber's min_discount_percent; a deal with no computed discount
\* percent is excluded exactly when the threshold is nonzero.
C10_MinDiscount ==
    \A k \in 1..Len(outbox) : \A p \in Range(outbox[k].deals) :
        MeetsMinDiscount(product_tbl[p], users[outbox[k].to])

\* a subscriber with a nonzero threshold was sent a deal that has no computed
\* discount percent
C10_Witness ==
    \E k \in 1..Len(outbox) : \E p \in Range(outbox[k].deals) :
        /\ users[outbox[k].to].min_discount_percent > 0
        /\ product_tbl[p].discount_percent = None

\* the per-deal membership filters as the claim states them
Member(p, u) ==
    /\ store_tbl[product_tbl[p].store_id].city = users[u].city
    /\ users[u].selected_store_ids # {} =>
          product_tbl[p].store_id \in users[u].selected_store_ids
    /\ users[u].favorite_categories # {} =>
          product_tbl[p].category \in users[u].favorite_categories

\* C11: every deal in a subscriber's payload satisfies the locality, store
\* selection and favorite-category filters, and a new deal that satisfies
\* every filter (these and the minimum discount) is in the payload.
C11_MembershipFilters ==
    Dispatching =>
        /\ \A k \in 1..Len(outbox) :
              /\ \A p \in Range(outbox[k].deals) : Member(p, outbox[k].to)
              /\ \A p \in Range(cyc["sched"].new_deals_list) :
                    (/\ Member(p, outbox[k].to)
                     /\ MeetsMinDiscount(product_tbl[p], users[outbox[k].to])) =>
                        p \in Range(outbox[k].deals)
        /\ cyc["sched"].pc = "broadcast" =>
              \A u \in 1..Len(users) : \A p \in Range(cyc["sched"].new_deals_list) :
                  (Member(p, u) /\ MeetsMinDiscount(product_tbl[p], users[u])) =>
                      CallsTo(u) # {}

\* a subscriber with a store selection and a favorite category was sent one
\* of two new deals; the other one fails a membership filter
C11_Witness ==
    /\ Len(outbox) = 1
    /\ users[outbox[1].to].selected_store_ids # {}
    /\ users[outbox[1].to].favorite_categories # {}
    /\ Dispatching
    /\ Len(cyc["sched"].new_deals_list) = 2
    /\ Len(outbox[1].deals) = 1
    /\ \E p \in Range(cyc["sched"].new_deals_list) : ~ Member(p, outbox[1].to)

\* C12: the window check allows a time exactly when start <= end and
\* start <= now <= end, or start > end and (now >= start or now <= end); a
\* subscriber outside the window is not sent anything, one inside it (with a
\* matching deal) is.
C12_TimeWindow ==
    /\ \A u \in 1..Len(users) :
          is_notification_time_allowed(users[u], now) <=> InWindow(users[u], now)
    /\ \A k \in 1..Len(outbox) : InWindow(users[outbox[k].to], now)
    /\ cyc["sched"].pc = "broadcast" =>
          \A u \in 1..Len(users) : InWindow(users[u], now) <=> CallsTo(u) # {}

\* the dispatch is over: a subscriber whose window wraps around midnight was
\* sent the deal at the last instant of the window, one whose window does
\* not wrap and has ended was not
C12_Witness ==
    /\ cyc["sched"].pc = "broadcast"
    /\ \E u, v \in 1..Len(users) :
          /\ users[u].notification_start_time > users[u].notification_end_time
          /\ TimeOfDay(now) = users[u].notification_end_time
          /\ CallsTo(u) # {}
          /\ users[v].notification_start_time <= users[v].notification_end_time
          /\ TimeOfDay(now) > users[v].notification_end_time
          /\ CallsTo(v) = {}

\* C13: a subscriber whose notify_new_deals flag or email_notifications flag
\* is false is never in the loop over users and the transport is never
\* called for them.
C13_FlagsOff ==
    /\ \A k \in 1..Len(outbox) :
          users[outbox[k].to].email_notifications /\ users[outbox[k].to].notify_new_deals
    /\ \A c \in Cycles : \A u \in Range(cyc[c].queue) :
          users[u].email_notifications /\ users[u].notify_new_deals

\* the dispatch is over: a subscriber with a flag off, inside the window and
\* with matching deals, was not called, while the other subscriber was
C13_Witness ==
    /\ cyc["sched"].pc = "broadcast"
    /\ Len(outbox) = 1
    /\ \E u \in 1..Len(users) :
          /\ ~ (users[u].email_notifications /\ users[u].notify_new_deals)
          /\ InWindow(users[u], now)
          /\ Matching(u, "sched") # <<>>
          /\ CallsTo(u) = {}

\* the calls of cycle c for which the transport reported success
Successes(c) == {k \in 1..Len(outbox) : outbox[k].run = cyc[c].run /\ outbox[k].success}

\* C14: whatever happens while one subscriber is processed (the send fails,
\* an exception is caught, the subscriber is skipped), the loop goes on with
\* the next subscriber of the query, and the count the dispatcher returns is
\* the number of subscribers for whom the transport reported success.
C14_FailureIsolated ==
    /\ [](\A c \in Cycles : cyc[c].pc \in {"user", "broadcast"} =>
              cyc[c].notifications_sent = Cardinality(Successes(c)))
    /\ [][\A c \in Cycles : UserStep(c) =>
              IF Len(cyc[c].queue) > 1
              THEN cyc'[c].pc = "user" /\ cyc'[c].queue = Tail(cyc[c].queue)
              ELSE cyc'[c].pc = "broadcast"
        ]_vars

\* the dispatch is over: the send to the first subscriber failed, the second
\* subscriber was still sent the deals, and the count is 1
C14_Witness ==
    /\ cyc["sched"].pc = "broadcast"
    /\ Len(outbox) = 2
    /\ ~ outbox[1].success
    /\ outbox[2].success
    /\ outbox[1].to # outbox[2].to
    /\ cyc["sched"].notifications_sent = 1

----------------------------------------------------------------------------
(* Properties of the scheduler *)

\* a call of start() or stop() is made
Call(name) == scheduler'.calls = scheduler.calls + 1 /\ scheduler'.last_call = name

\* the state of the scheduler without the record of the calls
Observable(sch) == <<sch.is_running, sch.jobs, sch.active>>

\* C15: the scheduler is running exactly when the last call was start();
\* start() while running and stop() while stopped change nothing; at most one
\* polling job is registered at any time.
C15_StartStop ==
    /\ [](/\ scheduler.is_running <=> scheduler.last_call = "start"
          /\ scheduler.is_running <=> scheduler.active
          /\ Len(scheduler.jobs) <= 1
          /\ scheduler.is_running => scheduler.jobs = <<JobId>>)
    /\ [][(\/ Call("start") /\ scheduler.is_running
           \/ Call("stop") /\ ~ scheduler.is_running) =>
              /\ Observable(scheduler') = Observable(scheduler)
              /\ cyc' = cyc
       ]_vars

\* the scheduler was started, stopped and started again, and a scheduled
\* cycle is in flight
C15_Witness ==
    /\ scheduler.calls = 3
    /\ scheduler.last_call = "start"
    /\ scheduler.is_running
    /\ scheduler.jobs = <<JobId>>
    /\ cyc["sched"].pc = "fetch"

\* a scheduled cycle starts
Tick == cyc["sched"].pc = "idle" /\ cyc'["sched"].pc = "fetch"

\* C16: stop() leaves a cycle that is in flight as it is (the cycle is not
\* cancelled and goes on), and no scheduled cycle starts while the scheduler
\* is stopped.
C16_StopLeavesCycle ==
    /\ [][Call("stop") => cyc' = cyc]_vars
    /\ [][Tick => scheduler.is_running]_vars
    /\ [](~ scheduler.cancelled)

\* stop() was called while a scheduled cycle was in flight, and the cycle is
\* gone: it was cancelled at its await
C16_Witness ==
    /\ scheduler.last_call = "stop"
    /\ scheduler.cancelled
    /\ cyc["sched"].pc = "idle"
    /\ started = 1
    /\ cyc["manual"].pc = "idle"
    /\ store_tbl = <<>>

----------------------------------------------------------------------------
(* Properties of overlapping cycles *)

\* the last entry of the snapshot for an external id
LastOf(items, id) ==
    items[CHOOSE k \in 1..Len(items) :
            /\ items[k].id = id
            /\ \A m \in 1..Len(items) : items[m].id = id => m <= k]

\* the rows of the store hold the snapshot: price and quantity of the entry
\* for a listed product, quantity 0 for any other
HoldsSnapshot(store_id, items) ==
    \A i \in 1..Len(product_tbl) :
        product_tbl[i].store_id = store_id =>
            IF product_tbl[i].external_id \in SnapshotIds(items)
            THEN Stored(product_tbl[i]) = Observed(LastOf(items, product_tbl[i].external_id))
            ELSE product_tbl[i].quantity_available = 0

\* cycle c is between the first write and the end of a store's reconciliation
Reconciling(c) == cyc[c].pc \in {"items", "stale"}

\* C17: with overlapping cycles, every cycle that has started ends (the
\* cycles are eventually all over, for good once no more are started); when a
\* store has been reconciled its rows hold the price and quantity of that
\* snapshot and nothing of another one, because no other cycle takes a step
\* while a store is reconciled and the product rows change in no other step.
C17_LastWriteWins ==
    /\ [](\A c \in Cycles :
              cyc[c].pc = "reconciled" => HoldsSnapshot(cyc[c].db_store, cyc[c].items))
    /\ [][\A c \in Cycles :
              /\ Reconciling(c) => \A d \in Cycles \ {c} : cyc'[d] = cyc[d]
              /\ (product_tbl' # product_tbl /\ cyc'[c] # cyc[c]) => Reconciling(c)
        ]_vars
    /\ [][product_tbl' # product_tbl => \E c \in Cycles : cyc'[c] # cyc[c]]_vars
    /\ <>[](\A c \in Cycles : cyc[c].pc = "idle")

\* the cycle that started first reconciles last: the cycle that started
\* second has ended, and the row it wrote now holds the first cycle's values
C17_Witness ==
    \E c, d \in Cycles :
        /\ c # d
        /\ started = 2
        /\ cyc[d].pc = "idle"
        /\ cyc[c].pc = "reconciled"
        /\ cyc[c].run = 1
        /\ cyc[c].items # <<>>
        /\ cyc[c].new_products = <<>>
        /\ \E i \in RowsFor(product_tbl, cyc[c].db_store, cyc[c].items[1].id) :
              /\ Cardinality(PointsOf(price_history, i)) = 2
              /\ Stored(product_tbl[i]) = Observed(cyc[c].items[1])

----------------------------------------------------------------------------
(* Properties of one cycle over several localities *)

\* the loop over the localities is over
AfterLoop(c) == cyc[c].pc \in {"notify", "user", "broadcast"}

\* every store of the response has its row, and its product rows are those of
\* its items
Reconciled(resp) ==
    \A k \in 1..Len(resp) :
        LET store_id == FindStore(store_tbl, resp[k].id)
        IN  /\ store_id # 0
            /\ HoldsSnapshot(store_id, resp[k].items)
            /\ \A id \in SnapshotIds(resp[k].items) :
                  RowsFor(product_tbl, store_id, id) # {}

\* the product rows of the stores of the response
RowsOf(resp) ==
    {i \in 1..Len(product_tbl) :
        \E k \in 1..Len(resp) :
            product_tbl[i].store_id = FindStore(store_tbl, resp[k].id)}

AllRows == [i \in 1..Len(product_tbl) |-> i]

NotifyStep(c) == cyc[c].pc = "notify" /\ cyc'[c] # cyc[c]

BroadcastStep(c) == cyc[c].pc = "broadcast" /\ cyc'[c] # cyc[c]

C19_FetchFailureIsolated ==
    /\ [](\A c \in Cycles : \A i \in 1..Len(cyc[c].fetched) :
              ~cyc[c].fetched[i].ok =>
                  /\ (cyc[c].pc # "idle" /\ ~AfterLoop(c)) => cyc[c].city_idx > i
                  /\ AfterLoop(c) =>
                        \A j \in (1..Len(tracked_cities)) \ {i} :
                            /\ j <= Len(cyc[c].fetched)
                            /\ cyc[c].fetched[j].ok =>
                                  /\ Reconciled(cyc[c].fetched[j].data)
                                  /\ RowsOf(cyc[c].fetched[j].data) \subseteq
                                        Range(cyc[c].new_deals_list))
    /\ [][\A c \in Cycles :
              (\E i \in 1..Len(cyc[c].fetched) : ~cyc[c].fetched[i].ok) =>
                  /\ (NotifyStep(c) /\ cyc[c].new_deals_list # <<>>) =>
                        cyc'[c].pc = "user" /\ cyc'[c].new_deals_list = cyc[c].new_deals_list
                  /\ (BroadcastStep(c) /\ cyc[c].new_deals_list # <<>>) =>
                        broadcasts' = Append(broadcasts,
                                             [run   |-> cyc[c].run,
                                              count |-> Len(cyc[c].new_deals_list)])
        ]_vars

\* the fetch of the first locality failed, the second returned a store with a
\* new product, and the dispatcher is entered with it
C19_Witness ==
    \E c \in Cycles :
        /\ cyc[c].pc = "user"
        /\ Len(cyc[c].fetched) = 2
        /\ ~cyc[c].fetched[1].ok
        /\ cyc[c].fetched[2].ok
        /\ cyc[c].fetched[2].data # <<>>
        /\ cyc[c].new_deals_list # <<>>
        /\ RowsOf(cyc[c].fetched[2].data) = Range(cyc[c].new_deals_list)

----------------------------------------------------------------------------
(* Properties of a cycle in which a write fails *)

\* C20: when a write for one store of a response has failed, every other
\* store of that response is reconciled by the end of the loop.
C20_WriteFailureSkipsStore ==
    \A c \in Cycles :
        AfterLoop(c) =>
            \A i \in 1..Len(cyc[c].fetched) :
                \A k \in 1..Len(cyc[c].fetched[i].data) :
                    cyc[c].fetched[i].data[k].id \notin cyc[c].write_failed =>
                        Reconciled(<<cyc[c].fetched[i].data[k]>>)

\* the write failed for the first of two stores, and the loop is over
C20_Witness ==
    \E c \in Cycles :
        /\ AfterLoop(c)
        /\ Len(cyc[c].fetched) = 1
        /\ Len(cyc[c].fetched[1].data) = 2
        /\ cyc[c].write_failed = {cyc[c].fetched[1].data[1].id}

----------------------------------------------------------------------------
(* Properties of a reconciliation in which an item fails *)

\* the items of the store being reconciled whose own processing did not raise
Sound(c) ==
    {m \in 1..Len(cyc[c].items) : <<cyc[c].store_pos, m>> \notin cyc[c].item_faults}

\* an item of the store being reconciled has raised
ItemFaulted(c) ==
    \E m \in 1..Len(cyc[c].items) : <<cyc[c].store_pos, m>> \in cyc[c].item_faults

\* C21: when an item of a store has raised, every other item of the store
\* is still processed (after the loop it has its row, with the values of the
\* last such item for its id), the reconciliation goes on to its end without
\* leaving the loop over the stores, and the rows of other stores are not
\* changed.
C21_ItemFailureCaught ==
    /\ [](\A c \in Cycles :
              (cyc[c].pc \in {"stale", "reconciled"} /\ ItemFaulted(c)) =>
                  \A m \in Sound(c) :
                      \E i \in RowsFor(product_tbl, cyc[c].db_store, cyc[c].items[m].id) :
                          \E k \in Sound(c) :
                              /\ k >= m
                              /\ cyc[c].items[k].id = cyc[c].items[m].id
                              /\ product_tbl[i].discount_price = cyc[c].items[k].price)
    /\ [][\A c \in Cycles :
              (cyc[c].pc \in {"items", "stale"} /\ ItemFaulted(c) /\ cyc'[c] # cyc[c]) =>
                  /\ cyc'[c].pc \in {"items", "stale", "reconciled"}
                  /\ \A i \in 1..Len(product_tbl) :
                        product_tbl[i].store_id # cyc[c].db_store =>
                            product_tbl'[i] = product_tbl[i]
        ]_vars

\* the commit of the first of two items has raised, the session refuses
\* further statements, and the loop over the items is over
C21_Witness ==
    \E c \in Cycles :
        /\ cyc[c].pc = "stale"
        /\ Len(cyc[c].items) = 2
        /\ cyc[c].item_faults = {<<cyc[c].store_pos, 1>>}
        /\ cyc[c].rollback_pending

----------------------------------------------------------------------------
(* Properties of a call and its caller *)

\* the call of cycle c is running: its session is open and it has not ended
Running(c) == cyc[c].pc \notin {"idle", "returned", "raised"}

\* C22: a cycle that is running never raises to its caller, whatever fetch,
\* write, dispatch or broadcast fails in it, and it always ends.
C22_CycleTerminates ==
    /\ [][\A c \in Cycles : Running(c) => cyc'[c].pc # "raised"]_vars
    /\ \A c \in Cycles : []<>(~Running(c))

\* the call has returned after a product was created for one locality, the
\* commit of an item of the other raised and left the session unusable, and
\* the broadcast raised
C22_Witness ==
    \E c \in Cycles :
        /\ cyc[c].pc = "returned"
        /\ cyc[c].new_deals_count > 0
        /\ cyc[c].item_faults # {}
        /\ cyc[c].rollback_pending
        /\ cyc[c].write_failed # {}
        /\ broadcasts = <<>>

\* the call of the manual trigger has ended with some failure in it
FailedInPart(r) ==
    \/ r.write_failed # {}
    \/ r.item_faults # {}
    \/ \E i \in 1..Len(r.fetched) : ~r.fetched[i].ok

\* C23: the manual trigger answers with an error only when the call raised,
\* which happens only at its setup, before any locality is attempted; a call
\* in which fetches, stores or items failed returns, and is answered with
\* success.
C23_ErrorOnlyAtSetup ==
    /\ [](LET r == cyc["manual"]
          IN  /\ r.pc = "raised" =>
                    /\ manual_refresh(r).status_code = 500
                    /\ r.city_idx = 0
                    /\ r.fetched = <<>>
              /\ r.pc = "returned" =>
                    /\ manual_refresh(r).status_code = 200
                    /\ manual_refresh(r).body.status = "success")
    /\ [][/\ cyc'["manual"].pc = "raised" => cyc["manual"].pc = "idle"
          /\ (Running("manual") /\ FailedInPart(cyc["manual"])) =>
                (Running("manual") \/ cyc["manual"].pc = "returned")'
        ]_vars

\* the manual call has returned after the fetch of every locality failed
C23_Witness ==
    /\ cyc["manual"].pc = "returned"
    /\ Len(cyc["manual"].fetched) = Len(tracked_cities)
    /\ \A i \in 1..Len(cyc["manual"].fetched) : ~cyc["manual"].fetched[i].ok

\* C24: the answer of a manual trigger whose call returned carries the
\* number of new deals the call found, besides its status and message.
C24_ResultCarriesCount ==
    LET r    == cyc["manual"]
        body == manual_refresh(r).body
    IN  r.pc = "returned" =>
            \E field \in DOMAIN body \ {"status", "message"} :
                body[field] = r.new_deals_count

\* the manual call has returned after it found a new deal
C24_Witness ==
    /\ cyc["manual"].pc = "returned"
    /\ cyc["manual"].new_deals_count > 0
    /\ manual_refresh(cyc["manual"]).status_code = 200

----------------------------------------------------------------------------
(* Properties of the connection manager *)

\* C25: broadcast never raises to its caller, also when a send fails and
\* when clients connect or disconnect while it is suspended in a send.
C25_BroadcastNeverRaises == manager.pc # "raised"

\* the broadcast is suspended in a send to one of two members, and a client
\* has connected or disconnected since it started
C25_Witness ==
    /\ manager.pc = "sending"
    /\ Cardinality(manager.at_start) = 2
    /\ manager.active_connections # manager.at_start

SendsTo(w) == {k \in 1..Len(manager.attempts) : manager.attempts[k].to = w}

\* C26: when a broadcast is over it has made exactly one send to every
\* client that was a member when it started; every client whose send failed
\* is no longer a member, and every client whose send succeeded and that did
\* not leave by itself still is.
C26_OneSendEach ==
    manager.pc \in {"returned", "raised"} =>
        /\ \A w \in manager.at_start : Cardinality(SendsTo(w)) = 1
        /\ \A k \in 1..Len(manager.attempts) :
              IF manager.attempts[k].ok
              THEN manager.attempts[k].to \in manager.active_connections \cup manager.left
              ELSE manager.attempts[k].to \notin manager.active_connections

\* the broadcast is over: the send to one member failed, that member was
\* still connected during it, and another member was not sent to
C26_Witness ==
    /\ manager.pc \in {"returned", "raised"}
    /\ \E k \in 1..Len(manager.attempts) :
          /\ ~manager.attempts[k].ok
          /\ manager.attempts[k].to \notin manager.left
    /\ \E w \in manager.at_start : SendsTo(w) = {}

----------------------------------------------------------------------------
(* Properties of the stores call *)

\* C27: with the upstream content fixed, a call returns what the upstream
\* answers to its arguments, with or without a cache and whatever calls
\* came before.
C27_CacheTransparent ==
    flashfood.last # None =>
        flashfood.last[1].result = Upstream(flashfood.last[1].args)

\* a call with include_items was answered from the cache
C27_Witness ==
    /\ flashfood.redis_client
    /\ flashfood.last # None
    /\ flashfood.last[1].hit
    /\ flashfood.last[1].args.include_items

\* the outcome the claim names for what was raised
SourceError(class) ==
    CASE class \in {"ConnectError", "ReadTimeout"}       -> "SourceUnavailable"
      [] class = "HTTPStatusError"                       -> "SourceRejected"
      [] class \in {"JSONDecodeError", "DecodingError"}  -> "SourceMalformed"

\* the outcome a caller can tell from the error of the call
Reported(error) ==
    CASE error.message = "Failed to connect to Flashfood API" -> "SourceUnavailable"
      [] error.message = "API returned status"                -> "SourceRejected"
      [] error.message = "Unexpected error"                   -> "SourceMalformed"

FailedCall == flashfood.last # None /\ "error" \in DOMAIN flashfood.last[1]

\* C28: a failed stores call is reported as unavailable for a network or
\* connect error, rejected for a status that is not a success, and malformed
\* for a payload that cannot be decoded, each told apart from the others.
C28_ThreeOutcomes ==
    FailedCall =>
        Reported(flashfood.last[1].error) = SourceError(flashfood.last[1].raised)

\* the last call failed on a payload that could not be decoded
C28_Witness ==
    /\ FailedCall
    /\ flashfood.last[1].raised \in {"JSONDecodeError", "DecodingError"}

----------------------------------------------------------------------------
(* C29: the discount percent of a normalized item *)

\* round(100 * (original - discount) / original) on amounts in cents: the
\* nearest integer, a half going away from zero
Round(a, b) ==
    IF a >= 0 THEN (2 * a + b) \div (2 * b) ELSE -((2 * (-a) + b) \div (2 * b))

Normalized == flashfood.last # None

\* C29: for every item with an original price above 0 the discount percent
\* of the normalized item is round(100 * (original - discount) / original),
\* and it is unset when the original price is 0 or cannot be parsed
C29_DiscountRounded ==
    Normalized =>
        LET item_info == flashfood.last[1].item_info
            o == item_info.original_price
            d == item_info.discount_price
        IN  /\ o > 0 => item_info.discount_percent = Some(Round(100 * (o - d), o))
            /\ o = 0 => item_info.discount_percent = None

\* an item whose discount is not a whole percent of its original price
C29_Witness ==
    /\ Normalized
    /\ LET item_info == flashfood.last[1].item_info
       IN  /\ item_info.original_price > 0
           /\ item_info.discount_price < item_info.original_price
           /\ (100 * (item_info.original_price - item_info.discount_price))
                   % item_info.original_price # 0
           /\ item_info.discount_percent # None

----------------------------------------------------------------------------
(* C30: the trace of three cycles over one store and one subscriber *)

\* cycle n has reconciled and dispatched
CycleDone(c, n) == now = n /\ cyc[c].pc = "broadcast"

\* the item the upstream listed last
ListedItem == flashfood.last[1][1].items[1]

\* the calls of the transport made by the cycle now running
NotificationsOf(c) == {k \in 1..Len(outbox) : outbox[k].run = cyc[c].run}

\* the product row of the trace holds the listed item
RowHolds(item) ==
    /\ Len(product_tbl) = 1
    /\ product_tbl[1].external_id = item.id
    /\ product_tbl[1].discount_price = item.price
    /\ product_tbl[1].quantity_available = item.quantityAvailable

\* what the cycle has to report: the products it created, and (as the claim
\* has it) the products it found changed
ChangedDiffs(c) == {e \in DiffEntries(cyc[c].new_deals_list) : e.kind = "changed"}

NewDiffs(c) == {e \in DiffEntries(cyc[c].new_deals_list) : e.kind = "new"}

FirstCycleAsClaimed(c) ==
    /\ RowHolds(ListedItem)
    /\ Len(price_history) = 1
    /\ price_history[1] = [product_id |-> 1, price |-> ListedItem.price,
                           quantity_available |-> ListedItem.quantityAvailable]
    /\ NewDiffs(c) = {[kind |-> "new", product |-> 1]}
    /\ Cardinality(NotificationsOf(c)) = 1
    /\ \A k \in NotificationsOf(c) : outbox[k].to = 1

SecondCycleAsClaimed(c) ==
    /\ RowHolds(ListedItem)
    /\ Len(price_history) = 2
    /\ price_history[2] = [product_id |-> 1, price |-> ListedItem.price,
                           quantity_available |-> ListedItem.quantityAvailable]
    /\ price_history[2].price # price_history[1].price
    /\ Cardinality(ChangedDiffs(c)) = 1
    /\ NewDiffs(c) = {}
    /\ NotificationsOf(c) = {}

ThirdCycleAsClaimed(c) ==
    /\ Len(product_tbl) = 1
    /\ product_tbl[1].quantity_available = 0
    /\ Len(price_history) = 2
    /\ ChangedDiffs(c) = {}
    /\ NewDiffs(c) = {}
    /\ NotificationsOf(c) = {}

\* C30: cycle 1 observes item a: product a is created with one history point,
\* reported new, and one notification goes to the subscriber; cycle 2 observes
\* a at another price: the same row is updated, a second history point is
\* added, one changed diff is reported and no notification is sent; cycle 3
\* observes no item: the quantity of a becomes 0, with no history point, no
\* diff and no notification.
C30_EndToEndTrace ==
    \A c \in Cycles :
        /\ CycleDone(c, 1) => FirstCycleAsClaimed(c)
        /\ CycleDone(c, 2) => SecondCycleAsClaimed(c)
        /\ CycleDone(c, 3) => ThirdCycleAsClaimed(c)

\* the third cycle has marked the product of the trace out of stock, after
\* the first created it and the second gave it a second history point
C30_Witness ==
    \E c \in Cycles :
        /\ CycleDone(c, 3)
        /\ Len(product_tbl) = 1
        /\ product_tbl[1].quantity_available = 0
        /\ Len(price_history) = 2
        /\ price_history[2].price # price_history[1].price

----------------------------------------------------------------------------
(* C31: a store sighted again *)

StoreRowsOf(stores, external_id) ==
    {i \in 1..Len(stores) : stores[i].external_id = external_id}

\* the name, address and coordinates of the row are those sighted last
Latest(row, raw_store) ==
    /\ row.name = raw_store.name
    /\ row.address = raw_store.fullAddress
    /\ row.latitude = raw_store.location[1]
    /\ row.longitude = raw_store.location[2]

\* C31: when a store that has a row is sighted again, in the feed of the same
\* or of another locality, no second row is created and only its name,
\* address and coordinates are overwritten with the latest observation; its
\* locality and its external identifier keep their stored values.
C31_LocalityKept ==
    [][ /\ \A i \in 1..Len(store_tbl) :
              /\ i <= Len(store_tbl')
              /\ store_tbl'[i].id = store_tbl[i].id
              /\ store_tbl'[i].external_id = store_tbl[i].external_id
              /\ store_tbl'[i].city = store_tbl[i].city
        /\ flashfood'.last # None =>
              LET raw_store == flashfood'.last[1].raw_store
                  rows      == StoreRowsOf(store_tbl', raw_store.id)
              IN  /\ Cardinality(rows) = 1
                  /\ \A i \in rows : Latest(store_tbl'[i], raw_store)
                  /\ \A i \in 1..Len(store_tbl) :
                        i \notin rows => store_tbl'[i] = store_tbl[i]
      ]_vars

\* a store that has a row under one locality was sighted last in the feed of
\* another
C31_Witness ==
    /\ flashfood.last # None
    /\ Len(store_tbl) = 2
    /\ flashfood.last[1].city_key = "edmonton"
    /\ \E i \in StoreRowsOf(store_tbl, flashfood.last[1].raw_store.id) :
          /\ i = 1
          /\ Latest(store_tbl[i], flashfood.last[1].raw_store)

----------------------------------------------------------------------------
(* C32: the stale marking and the items of the snapshot *)

\* C32: a product whose external id occurs in the snapshot being reconciled
\* is never set to quantity 0 by the stale marking of that reconciliation,
\* even when parsing or writing the item has failed.
C32_ListedNeverStale ==
    [][\A c \in Cycles :
          StaleStep(c) =>
              \A i \in 1..Len(product_tbl) :
                  (/\ product_tbl[i].store_id = cyc[c].db_store
                   /\ product_tbl[i].external_id \in SnapshotIds(cyc[c].items)
                   /\ product_tbl[i].quantity_available > 0)
                      => product_tbl'[i].quantity_available > 0
      ]_vars

\* the stale marking has run on a usable session after an item of the
\* snapshot, whose product has a row, has raised
C32_Witness ==
    \E c \in Cycles :
        /\ cyc[c].pc = "reconciled"
        /\ ~cyc[c].rollback_pending
        /\ \E m \in 1..Len(cyc[c].items) :
              /\ <<cyc[c].store_pos, m>> \in cyc[c].item_faults
              /\ RowsFor(product_tbl, cyc[c].db_store, cyc[c].items[m].id) # {}

----------------------------------------------------------------------------
(* C33: the stores that a cycle was not given *)

\* the external ids of the stores that the fetches of cycle record r returned
StoresReturned(r) ==
    UNION {{r.fetched[k].data[j].id : j \in 1..Len(r.fetched[k].data)} :
              k \in 1..Len(r.fetched)}

\* the store rows whose store the cycle was not given, before or in this step
NotGiven(c) ==
    {s \in 1..Len(store_tbl) :
        store_tbl[s].external_id \notin StoresReturned(cyc[c]) \cup StoresReturned(cyc'[c])}

\* the history points of the products of store row s
PointsOfStore(products, history, s) ==
    SelectSeq(history, LAMBDA h : products[h.product_id].store_id = s)

\* C33: a cycle leaves unchanged every product row and history point of a
\* store that no locality fetch of the cycle returned, a failed fetch
\* included: its products are not marked stale and keep their quantity and
\* last_seen.
C33_StoresNotGivenUntouched ==
    [][\A c \in Cycles :
          cyc'[c] # cyc[c] =>
              \A s \in NotGiven(c) :
                  /\ \A i \in 1..Len(product_tbl) :
                        product_tbl[i].store_id = s => product_tbl'[i] = product_tbl[i]
                  /\ \A i \in 1..Len(product_tbl') :
                        product_tbl'[i].store_id = s => i <= Len(product_tbl)
                  /\ PointsOfStore(product_tbl', price_history', s)
                        = PointsOfStore(product_tbl, price_history, s)
      ]_vars

\* a cycle whose fetch for calgary failed has reconciled a store of edmonton,
\* while the store of calgary has a product in stock
C33_Witness ==
    \E c \in Cycles :
        /\ cyc[c].pc = "reconciled"
        /\ cyc[c].fetched[1] = Raised
        /\ \E i \in 1..Len(product_tbl) :
              /\ store_tbl[product_tbl[i].store_id].external_id \notin StoresReturned(cyc[c])
              /\ product_tbl[i].quantity_available > 0

----------------------------------------------------------------------------
(* C34: the most recent history point of a product *)

\* the most recent point of product i records the row's price and quantity
LastPointCurrent(i) ==
    /\ PointsOf(price_history, i) # {}
    /\ \E k \in PointsOf(price_history, i) :
          /\ \A m \in PointsOf(price_history, i) : m <= k
          /\ price_history[k].price = product_tbl[i].discount_price
          /\ price_history[k].quantity_available = product_tbl[i].quantity_available

\* C34: a PriceHistoryPoint is appended whenever the stored price or quantity
\* of a product changes, so that after every reconciliation the most recent
\* point of each product of the store records the current discount price
\* and quantity of its row, also after the product is marked stale and after
\* it reappears.
C34_HistoryFollowsRow ==
    \A c \in Cycles :
        cyc[c].pc = "reconciled" =>
            \A i \in 1..Len(product_tbl) :
                product_tbl[i].store_id = cyc[c].db_store => LastPointCurrent(i)

\* a reconciliation has ended in which one product of the store was marked
\* stale and another, out of stock before, was listed again
C34_Witness ==
    \E c \in Cycles :
        /\ cyc[c].pc = "reconciled"
        /\ \E i, j \in 1..Len(product_tbl) :
              /\ product_tbl[i].store_id = cyc[c].db_store
              /\ product_tbl[j].store_id = cyc[c].db_store
              /\ product_tbl[i].external_id \notin SnapshotIds(cyc[c].items)
              /\ product_tbl[i].quantity_available = 0
              /\ product_tbl[i].last_seen = now
              /\ product_tbl[j].external_id \in SnapshotIds(cyc[c].items)
              /\ product_tbl[j].quantity_available > 0
              /\ \E k \in PointsOf(price_history, j) :
                    price_history[k].quantity_available = 0

----------------------------------------------------------------------------
(* C35: every product has a history *)

\* C35: in every state between the steps that process the items, also after
\* a write has failed between the creation of a product row and the
\* recording of its first price-history point, every product row has at
\* least one PriceHistoryPoint.
C35_EveryProductHasPoint ==
    \A i \in 1..Len(product_tbl) : PointsOf(price_history, i) # {}

\* the processing of an item has raised after its product row was created
C35_Witness ==
    \E c \in Cycles :
        /\ cyc[c].pc \in {"items", "stale"}
        /\ \E m \in 1..Len(cyc[c].items) :
              /\ <<cyc[c].store_pos, m>> \in cyc[c].item_faults
              /\ \E i \in RowsFor(product_tbl, cyc[c].db_store, cyc[c].items[m].id) :
                    i \in Range(cyc[c].new_products)

----------------------------------------------------------------------------
(* C36: nothing is deleted *)

\* the rows of a table are kept, under their ids
RowsKept(before, after) ==
    /\ Len(after) >= Len(before)
    /\ \A i \in 1..Len(before) : after[i].id = before[i].id

\* the history is only appended to
HistoryKept == SubSeq(price_history', 1, Len(price_history)) = price_history

\* the step has deleted nothing and changed no point
AppendOnly ==
    /\ RowsKept(store_tbl, store_tbl')
    /\ RowsKept(product_tbl, product_tbl')
    /\ Len(price_history') >= Len(price_history)
    /\ HistoryKept

\* C36: no cycle deletes a store row, a product row or a PriceHistoryPoint,
\* and none modifies an existing PriceHistoryPoint; going stale only sets the
\* quantity of the product to 0.
C36_AppendOnly ==
    [][ /\ AppendOnly
        /\ \A c \in Cycles :
              StaleStep(c) =>
                  \A i \in 1..Len(product_tbl) :
                      \/ product_tbl'[i] = product_tbl[i]
                      \/ product_tbl'[i] = [product_tbl[i] EXCEPT !.quantity_available = 0]
      ]_vars

\* a reconciliation has created a product and marked another, seen in an
\* earlier cycle, stale
C36_Witness ==
    \E c \in Cycles :
        /\ cyc[c].pc = "reconciled"
        /\ cyc[c].new_products # <<>>
        /\ \E i \in 1..Len(product_tbl) :
              /\ product_tbl[i].store_id = cyc[c].db_store
              /\ i \notin Range(cyc[c].new_products)
              /\ product_tbl[i].external_id \notin SnapshotIds(cyc[c].items)
              /\ product_tbl[i].quantity_available = 0
              /\ \E k \in PointsOf(price_history, i) : price_history[k].quantity_available > 0

----------------------------------------------------------------------------
(* C37: an external id that a snapshot lists more than once *)

Occurrences(items, id) == {k \in 1..Len(items) : items[k].id = id}

Repeated(items) == {id \in SnapshotIds(items) : Cardinality(Occurrences(items, id)) > 1}

\* the fields of the row that come from the item
ItemFields(row) ==
    [external_id        |-> row.external_id,
     category           |-> row.category,
     original_price     |-> row.original_price,
     discount_price     |-> row.discount_price,
     discount_percent   |-> row.discount_percent,
     quantity_available |-> row.quantity_available]

\* cycle c has left the loop over the items of its store
ItemsApplied(c) == cyc[c].pc \in {"stale", "reconciled"}

\* C37: when a snapshot lists the same external id more than once, the
\* occurrences are applied in the order received: the id has exactly one
\* product row, the row is reported new at most once, and after the
\* reconciliation its fields are those of the last occurrence.
C37_LastOccurrenceWins ==
    \A c \in Cycles :
        ItemsApplied(c) =>
            \A id \in Repeated(cyc[c].items) :
                LET rows == RowsFor(product_tbl, cyc[c].db_store, id)
                IN  /\ Cardinality(rows) = 1
                    /\ \A i \in rows :
                          /\ ItemFields(product_tbl[i])
                                = parse_item_data(LastOf(cyc[c].items, id))
                          /\ product_tbl[i].last_seen = now
                          /\ Cardinality({k \in 1..Len(cyc[c].new_products) :
                                             cyc[c].new_products[k] = i}) <= 1

\* a snapshot that lists a new product twice, with different prices and
\* quantities, has been reconciled
C37_Witness ==
    \E c \in Cycles :
        /\ cyc[c].pc = "reconciled"
        /\ Len(cyc[c].items) = 2
        /\ cyc[c].items[1].id = cyc[c].items[2].id
        /\ cyc[c].items[1].price # cyc[c].items[2].price
        /\ cyc[c].items[1].quantityAvailable # cyc[c].items[2].quantityAvailable
        /\ Len(cyc[c].new_products) = 1

----------------------------------------------------------------------------
(* C38: a locality whose fetch failed *)

\* cycle c gets the outcome of a fetch
FetchStep(c) == cyc[c].pc = "fetch" /\ cyc'[c] # cyc[c]

\* cycle c leaves the locality it is at, for the next or for the end of the loop
LeavesLocality(c) ==
    /\ cyc[c].pc \notin {"idle", "fetch"}
    /\ ~AfterLoop(c)
    /\ cyc'[c].pc \in {"fetch", "notify"}

\* C38: a locality whose fetch fails is not fetched again within the same
\* cycle: each cycle makes at most one fetch attempt for each tracked
\* locality; every later cycle fetches it again, and in the first later cycle
\* in which its fetch succeeds the items it returns are reconciled.
C38_RetriedNextCycle ==
    /\ [][\A c \in Cycles :
              FetchStep(c) =>
                  /\ Len(cyc'[c].fetched) = Len(cyc[c].fetched) + 1
                  /\ Len(cyc'[c].fetched) = cyc[c].city_idx
                  /\ ~cyc'[c].fetched[cyc[c].city_idx].ok =>
                        \/ cyc'[c].pc = "fetch" /\ cyc'[c].city_idx = cyc[c].city_idx + 1
                        \/ cyc'[c].pc = "notify"
        ]_vars
    /\ [](\A c \in Cycles :
              /\ Len(cyc[c].fetched) <= Len(tracked_cities)
              /\ AfterLoop(c) => Len(cyc[c].fetched) = Len(tracked_cities))
    /\ [][\A c \in Cycles :
              LeavesLocality(c) =>
                  /\ cyc[c].pc = "reconciled"
                  /\ cyc[c].store_pos = Len(cyc[c].stores_data)
                  /\ cyc[c].stores_data = cyc[c].fetched[cyc[c].city_idx].data
        ]_vars
    /\ [](\A c \in Cycles :
              cyc[c].pc = "reconciled" =>
                  /\ cyc[c].stores_data[cyc[c].store_pos].items = cyc[c].items
                  /\ store_tbl[cyc[c].db_store].external_id
                        = cyc[c].stores_data[cyc[c].store_pos].id
                  /\ HoldsSnapshot(cyc[c].db_store, cyc[c].items))

\* the first cycle's fetch for calgary failed; the second cycle, started
\* while the first awaits its fetch for edmonton, has fetched calgary and
\* reconciled the store it returned
C38_Witness ==
    \E c, d \in Cycles :
        /\ cyc[c].run = 1
        /\ cyc[c].pc = "fetch"
        /\ cyc[c].fetched = <<Raised>>
        /\ cyc[d].run = 2
        /\ cyc[d].pc = "reconciled"
        /\ cyc[d].city_idx = 1
        /\ cyc[d].items # <<>>
        /\ \E i \in RowsFor(product_tbl, cyc[d].db_store, cyc[d].items[1].id) :
              Stored(product_tbl[i]) = Observed(cyc[d].items[1])

----------------------------------------------------------------------------
(* C39: the dispatcher raises *)

\* the call of the dispatcher by cycle c raises: there are new deals, and the
\* loop over the users is not entered
DispatcherRaisesStep(c) ==
    /\ cyc[c].pc = "notify"
    /\ cyc[c].new_deals_list # <<>>
    /\ cyc'[c] # cyc[c]
    /\ cyc'[c].pc # "user"

\* cycle c calls the broadcaster with its count of new deals: the call
\* returns, or it raises inside the broadcaster and is caught; either way the
\* session is closed and the call of the cycle returns
BroadcasterCalled(c) ==
    /\ cyc'[c].pc = "returned"
    /\ \/ broadcasts' = Append(broadcasts, [run   |-> cyc[c].run,
                                            count |-> cyc[c].new_deals_count])
       \/ broadcasts' = broadcasts

\* C39: if the dispatcher raises while sending the new-deal notifications,
\* the cycle still notifies the broadcaster with the count of new deals and
\* still closes its database session.
C39_BroadcastAfterDispatchFailure ==
    /\ [][\A c \in Cycles :
              /\ DispatcherRaisesStep(c) =>
                    /\ cyc'[c].pc = "broadcast"
                    /\ cyc'[c].new_deals_count = cyc[c].new_deals_count
                    /\ cyc'[c].new_deals_count > 0
              /\ (BroadcastStep(c) /\ cyc[c].new_deals_count > 0) => BroadcasterCalled(c)
        ]_vars
    /\ \A c \in Cycles : (cyc[c].pc = "broadcast") ~> (cyc[c].pc = "returned")

\* a cycle whose session refuses statements, so that its dispatcher raised,
\* has notified the broadcaster with its count and returned
C39_Witness ==
    \E c \in Cycles :
        /\ cyc[c].pc = "returned"
        /\ cyc[c].rollback_pending
        /\ cyc[c].new_deals_count > 0
        /\ broadcasts # <<>>
        /\ broadcasts[Len(broadcasts)] = [run |-> cyc[c].run, count |-> cyc[c].new_deals_count]

----------------------------------------------------------------------------
(* C40: connections recorded under a user *)

\* C40: in every reachable state of the connection manager, after any
\* sequence of connect, disconnect, broadcast and send_to_user operations,
\* every connection recorded under some user in user_connections is also a
\* member of active_connections, and user_connections holds no empty set.
C40_UserConnectionsActive ==
    \A u \in DOMAIN manager.user_connections :
        /\ manager.user_connections[u] # {}
        /\ manager.user_connections[u] \subseteq manager.active_connections

\* a broadcast has returned after removing a connection whose send raised,
\* which no caller had disconnected, and the connection is still recorded
\* under its user
C40_Witness ==
    /\ manager.pc = "returned"
    /\ \E w \in manager.disconnected \ manager.left :
          /\ w \notin manager.active_connections
          /\ \E u \in DOMAIN manager.user_connections :
                w \in manager.user_connections[u]

====
